---- MODULE Spec2Model ----
(***************************************************************************)
(* A model of the todo-app: the IndexedDB record store (db.ts), the        *)
(* zustand state container (store/todoStore.ts) with its filter engine,    *)
(* the checkbox click chain of the list view and the day view of the       *)
(* calendar.                                                               *)
(*                                                                         *)
(* Conventions                                                             *)
(*  - an optional value (TypeScript `T | undefined`, `T | null`) is a      *)
(*    sequence of length at most one: None or Some(v);                     *)
(*  - a JavaScript string is a sequence of one-character strings;          *)
(*  - a Date is an integer number of minutes of local time, so that the    *)
(*    calendar day, the hour and the minute are computed from it.          *)
(***************************************************************************)
EXTENDS Integers, Sequences, FiniteSets, TLC

VARIABLES
    \* Record Store (IndexedDB)
    dbTodos,            \* task collection: key -> stored record
    dbCategories,       \* category collection: set of category ids
    nextId,             \* autoIncrement key generator of the task collection
    nextUuid,           \* number of uuid() values handed out so far
    now,                \* the clock read by `new Date()`
    \* State Container (zustand store)
    todos, categories,
    selectedDate, selectedTags, selectedCategories, selectedPriority,
    searchQuery, completionFilter,
    last,               \* the handler that ran last and its arguments
    \* direct calls of the Record Store: addTodo(x) then getTodos()
    rtX, rtKey, rtOut, rtPc,
    \* direct calls of filterTodos
    fArgs, fResult, fAgain, fPc,
    \* the calendar's day view
    cTodos, cDay, cAllDay, cSlots, cPc,
    \* the asynchronous life of the State Container
    dbSettings,         \* settings collection: the theme of the one record
    settings,           \* the container's copy of the settings record
    isLoading, refreshTrigger,
    calls,              \* mutator calls awaiting their Record Store call
    loads,              \* loadData calls that have not finished
    issued,             \* what has been started and finished so far
    \* the IndexedDB database behind the Record Store
    idbVersion,         \* schema version of the database, 0: no database
    idbStores,          \* names of its object stores
    idbIndexes,         \* names of the indexes of the task store
    hasSettings,        \* the settings store holds the record "settings"
    openHandles,        \* connections to the database that are open
    dbPromise,          \* the module caches a connection (promise)
    upgrade,            \* the running versionchange transaction of openDB
    reset,              \* the running resetDatabase call
    \* direct calls of the Record Store's read functions and of deleteAllTodos
    rd,                 \* the read function called last and what it returned
    da,                 \* the running deleteAllTodos call
    \* further parts of the program
    storeOp,            \* store operations that went through initDB
    dbStats,            \* the statistics collection by date key, and the
                        \* browser's offset from UTC in minutes
    catParent,          \* parentId of every stored category
    tagList,            \* the TagInput component: its tags and input
    track,              \* timeTracking of one stored task, with the interval
                        \* in progress and the sum of the intervals tracked
    rmw,                \* task mutators in flight, each with the record it
                        \* has read, the mutators that have completed, the
                        \* running cascade of deleteCategory, the task the
                        \* edit form was opened with, the ids deleted so far
    notice              \* the notification TodoList.handleDeleteTodo showed

storeVars == <<dbTodos, dbCategories, nextId, nextUuid, now>>
containerVars == <<todos, categories, selectedDate, selectedTags,
                   selectedCategories, selectedPriority, searchQuery,
                   completionFilter, last>>
rtVars == <<rtX, rtKey, rtOut, rtPc>>
filterVars == <<fArgs, fResult, fAgain, fPc>>
calendarVars == <<cTodos, cDay, cAllDay, cSlots, cPc>>
asyncVars == <<dbSettings, settings, isLoading, refreshTrigger, calls, loads,
               issued>>
schemaVars == <<idbVersion, idbStores, idbIndexes, hasSettings, openHandles,
                dbPromise, upgrade, reset>>
directVars == <<rd, da>>
lateVars == <<storeOp, dbStats, catParent, tagList, track, rmw, notice>>
extVars == <<asyncVars, schemaVars, directVars, lateVars>>
vars == <<storeVars, containerVars, rtVars, filterVars, calendarVars, extVars>>

----------------------------------------------------------------------------
(* Bounds of the model *)

MaxTodos == 2           \* tasks ever added in one behaviour
MaxCategories == 1      \* categories ever added in one behaviour
MaxTicks == 1           \* clock ticks in one behaviour
MaxLen == 2             \* length of the lists given to the pure functions

----------------------------------------------------------------------------
(* Optional values *)

None == <<>>
Some(v) == <<v>>
IsSome(o) == Len(o) > 0
Val(o) == o[1]

----------------------------------------------------------------------------
(* JavaScript strings and arrays *)

Lower(c) == CASE c = "A" -> "a" [] c = "B" -> "b" [] OTHER -> c

toLowerCase(s) == [i \in 1..Len(s) |-> Lower(s[i])]

\* String.prototype.includes: q occurs in s as a substring
strIncludes(s, q) ==
    \E i \in 1..(Len(s) - Len(q) + 1) : SubSeq(s, i, i + Len(q) - 1) = q

RECURSIVE trimStart(_)
trimStart(s) ==
    IF s /= <<>> /\ Head(s) = " " THEN trimStart(Tail(s)) ELSE s

RECURSIVE trimEnd(_)
trimEnd(s) ==
    IF s /= <<>> /\ s[Len(s)] = " " THEN trimEnd(SubSeq(s, 1, Len(s) - 1)) ELSE s

trim(s) == trimEnd(trimStart(s))

\* Array.prototype.includes; every and some are written as \A and \E over
\* the positions of the array
includes(arr, x) == \E i \in 1..Len(arr) : arr[i] = x

----------------------------------------------------------------------------
(* Dates *)

MinutesPerDay == 24 * 60

\* getFullYear(), getMonth() and getDate() together: the calendar day
calendarDay(d) == d \div MinutesPerDay
getHours(d) == (d % MinutesPerDay) \div 60
getMinutes(d) == d % 60
isSameDay(a, b) == calendarDay(a) = calendarDay(b)
startOfDay(d) == d - (d % MinutesPerDay)
At(day, hour, minute) == day * MinutesPerDay + hour * 60 + minute

----------------------------------------------------------------------------
(* Priority *)

LOW == "low"
MEDIUM == "medium"
HIGH == "high"

----------------------------------------------------------------------------
(* The filter engine of the State Container: store/todoStore.ts *)

\* date filter: applied only when a date is selected and the task has a due date
dateFilter(todo, sDate) ==
    (IsSome(sDate) /\ IsSome(todo.dueDate))
        => isSameDay(Val(todo.dueDate), Val(sDate))

\* a tag filter with OR semantics: some selected tag is one of the task's tags
tagFilter_anyTag(todo, sTags) ==
    (Len(sTags) > 0) =>
        /\ IsSome(todo.tags)
        /\ \E i \in 1..Len(sTags) : includes(Val(todo.tags), sTags[i])

\* tag filter (AND): every selected tag is one of the task's tags
tagFilter(todo, sTags) ==
    (Len(sTags) > 0)
        => /\ IsSome(todo.tags)
           /\ \A i \in 1..Len(sTags) : includes(Val(todo.tags), sTags[i])

\* category filter: the task's category is one of the selected ones
categoryFilter(todo, sCats) ==
    (Len(sCats) > 0)
        => /\ IsSome(todo.categoryId)
           /\ includes(sCats, Val(todo.categoryId))

\* priority filter
priorityFilter(todo, sPriority) ==
    IsSome(sPriority) => todo.priority = sPriority

\* search filter: skipped when the query trims to nothing; the query is
\* lower-cased but not trimmed before it is looked for
searchFilter(todo, sQuery) ==
    (trim(sQuery) /= <<>>) =>
        LET query == toLowerCase(sQuery)
            textMatch == strIncludes(toLowerCase(todo.text), query)
            descMatch ==
                IF IsSome(todo.description) /\ Val(todo.description) /= <<>>
                THEN strIncludes(toLowerCase(Val(todo.description)), query)
                ELSE FALSE
            tagsMatch ==
                IF IsSome(todo.tags)
                THEN \E i \in 1..Len(Val(todo.tags)) :
                        strIncludes(toLowerCase(Val(todo.tags)[i]), query)
                ELSE FALSE
            notesMatch ==
                IF IsSome(todo.notes)
                THEN \E i \in 1..Len(Val(todo.notes)) :
                        strIncludes(toLowerCase(Val(todo.notes)[i].content), query)
                ELSE FALSE
        IN  textMatch \/ descMatch \/ tagsMatch \/ notesMatch

\* completion filter
completionFilterPasses(todo, cFilter) ==
    /\ ~(cFilter = "completed" /\ ~todo.completed)
    /\ ~(cFilter = "active" /\ todo.completed)

\* the predicate handed to Array.prototype.filter
keepTodo(todo, sDate, sTags, sCats, sPriority, sQuery, cFilter) ==
    /\ dateFilter(todo, sDate)
    /\ tagFilter(todo, sTags)
    /\ categoryFilter(todo, sCats)
    /\ priorityFilter(todo, sPriority)
    /\ searchFilter(todo, sQuery)
    /\ completionFilterPasses(todo, cFilter)

\* a filter that loses the first task it keeps
filterTodos_losesFirst(list, sDate, sTags, sCats, sPriority, sQuery, cFilter) ==
    LET kept == SelectSeq(list,
                          LAMBDA todo : keepTodo(todo, sDate, sTags, sCats,
                                                 sPriority, sQuery, cFilter))
    IN  IF kept = <<>> THEN kept ELSE Tail(kept)

\* a filter that returns what it keeps newest first
RECURSIVE reversed(_)
reversed(list) ==
    IF list = <<>> THEN <<>> ELSE reversed(Tail(list)) \o <<Head(list)>>

filterTodos_newestFirst(list, sDate, sTags, sCats, sPriority, sQuery, cFilter) ==
    reversed(SelectSeq(list,
                       LAMBDA todo : keepTodo(todo, sDate, sTags, sCats,
                                              sPriority, sQuery, cFilter)))

filterTodos(list, sDate, sTags, sCats, sPriority, sQuery, cFilter) ==
    SelectSeq(list,
              LAMBDA todo : keepTodo(todo, sDate, sTags, sCats, sPriority,
                                     sQuery, cFilter))

\* the derived accessor: the selected date of the container is always a Date
getFilteredTodos ==
    filterTodos(todos, Some(selectedDate), selectedTags, selectedCategories,
                selectedPriority, searchQuery, completionFilter)

----------------------------------------------------------------------------
(* The Record Store: db.ts *)

\* `o || d` for a value that is truthy whenever it is present (an array, a
\* Date, a Priority)
orDefault(o, d) == IF IsSome(o) THEN o ELSE Some(d)

\* `description || ""`: the empty string is falsy too
orEmptyString(o) == IF IsSome(o) /\ Val(o) /= <<>> THEN o ELSE Some(<<>>)

RECURSIVE sortedKeys(_)
sortedKeys(S) ==
    IF S = {} THEN <<>>
    ELSE LET m == CHOOSE x \in S : \A y \in S : x <= y
         IN  <<m>> \o sortedKeys(S \ {m})

\* db.getAll(TODO_STORE): the stored records in key order
getAll(store) ==
    LET keys == sortedKeys(DOMAIN store)
    IN  [i \in 1..Len(keys) |-> store[keys[i]]]

\* db.put(TODO_STORE, todo): insert or overwrite the record at todo.id
put(store, todo) ==
    [k \in DOMAIN store \cup {todo.id} |->
        IF k = todo.id THEN todo ELSE store[k]]

\* an addTodo that stamps createdAt with the time of the call, whatever the
\* payload says
newTodo_stampsCreatedAt(x, t) ==
    [x EXCEPT !.createdAt = Some(t),
              !.tags = orDefault(@, <<>>),
              !.priority = orDefault(@, MEDIUM),
              !.subtasks = orDefault(@, <<>>),
              !.notes = orDefault(@, <<>>),
              !.description = orEmptyString(@)]

\* the record addTodo builds from its payload (defaults for missing fields)
newTodo(x, t) ==
    [x EXCEPT !.createdAt = orDefault(@, t),
              !.tags = orDefault(@, <<>>),
              !.priority = orDefault(@, MEDIUM),
              !.subtasks = orDefault(@, <<>>),
              !.notes = orDefault(@, <<>>),
              !.description = orEmptyString(@)]

\* addTodo: db.add stores the record under the next autoIncrement key
db_addTodo(store, x, key, t) ==
    put(store, [id |-> key] @@ newTodo(x, t))

\* the read repair of getTodos
normalize(todo) ==
    [todo EXCEPT !.tags = orDefault(@, <<>>),
                 !.priority = orDefault(@, MEDIUM),
                 !.subtasks = orDefault(@, <<>>),
                 !.notes = orDefault(@, <<>>),
                 !.description = orEmptyString(@)]

getTodos(store) ==
    LET all == getAll(store)
    IN  [i \in 1..Len(all) |-> normalize(all[i])]

\* db.updateTodo
db_updateTodo(store, todo) == put(store, todo)

\* a toggle that sets completedAt on completion and forgets to clear it
db_toggleTodoCompletion_keepsCompletedAt(store, id, completed, t) ==
    IF id \in DOMAIN store
    THEN put(store, [store[id] EXCEPT
                        !.completed = completed,
                        !.completedAt = IF completed THEN Some(t) ELSE @])
    ELSE store

\* toggleTodoCompletion(id, completed) at time t
db_toggleTodoCompletion(store, id, completed, t) ==
    IF id \in DOMAIN store
    THEN put(store, [store[id] EXCEPT
                        !.completed = completed,
                        !.completedAt = IF completed THEN Some(t) ELSE None])
    ELSE store

\* db.deleteTodo
db_deleteTodo(store, id) == [k \in DOMAIN store \ {id} |-> store[k]]

\* getTodosByCategory: the records the categoryId index holds under the key
db_getTodosByCategory(store, categoryId) ==
    SelectSeq(getAll(store), LAMBDA todo : todo.categoryId = Some(categoryId))

\* deleteCategory, its effect on the category collection
deleteCategory_categories(cats, id) == cats \ {id}

\* deleteCategory, its effect on the task collection: the cascade loop
RECURSIVE cascade(_, _)
cascade(store, list) ==
    IF list = <<>> THEN store
    ELSE cascade(db_updateTodo(store, [Head(list) EXCEPT !.categoryId = None]),
                 Tail(list))

\* a deleteCategory without the cascade
deleteCategory_todos_noCascade(store, id) == store

deleteCategory_todos(store, id) ==
    cascade(store, db_getTodosByCategory(store, id))

\* getCategories
getCategories(cats) == sortedKeys(cats)

----------------------------------------------------------------------------
(* The State Container and the list view: the handlers a user can trigger. *)
(* Every mutator awaits its Record Store call and then reloads the         *)
(* container through refreshData -> loadData.                              *)

T0 == At(1, 10, 0)                      \* the time the application starts

\* the payloads TodoForm.handleSubmit builds for a new task
FormPayloads ==
    [text : {<<"a">>}, description : {None}, completed : {FALSE},
     createdAt : {Some(now)},
     dueDate : {None, Some(At(1, 9, 0)), Some(At(2, 0, 0))},
     tags : {Some(<<>>)}, priority : {Some(MEDIUM)},
     subtasks : {Some(<<>>)}, notes : {Some(<<>>)},
     categoryId : {None} \cup {Some(categories[i]) : i \in 1..Len(categories)},
     completedAt : {None}]

Called(op, id, completed, cat, n) ==
    [op |-> op, id |-> id, completed |-> completed, cat |-> cat, n |-> n]

idleRt == rtX = None /\ rtKey = 0 /\ rtOut = <<>> /\ rtPc = "idle"
idleFilter == fArgs = None /\ fResult = <<>> /\ fAgain = <<>> /\ fPc = "idle"
idleCalendar ==
    cTodos = <<>> /\ cDay = 0 /\ cAllDay = <<>> /\ cSlots = <<>> /\ cPc = "idle"

\* settings: the record the upgrade seeds has theme "system"; the container
\* starts with settings: null, isLoading: false, refreshTrigger: 0
DefaultTheme == "system"
NoTheme == "no settings record"
NothingIssued == [calls |-> 0, loads |-> 0, appLoads |-> 0, sets |-> 0]
idleAsync ==
    /\ settings = None
    /\ isLoading = FALSE
    /\ refreshTrigger = 0
    /\ calls = {}
    /\ loads = {}
    /\ issued = NothingIssued
InitAsync == dbSettings = DefaultTheme /\ idleAsync

\* the database as the current schema version leaves it
TODO_STORE == "todos"
CATEGORY_STORE == "categories"
SETTINGS_STORE == "settings"
TEMPLATE_STORE == "templates"
STATS_STORE == "stats"
DB_VERSION == 6
AllStores ==
    {TODO_STORE, CATEGORY_STORE, SETTINGS_STORE, TEMPLATE_STORE, STATS_STORE}
indexesV1 == {"createdAt", "dueDate"}
indexesToAdd ==
    <<"startDate", "endDate", "priority", "categoryId", "parentId", "completedAt">>
AllIndexes == indexesV1 \cup {indexesToAdd[i] : i \in 1..Len(indexesToAdd)}

NoUpgrade == [pc |-> "idle", oldVersion |-> 0, clash |-> FALSE, before |-> <<>>]
NoReset == [pc |-> "idle", result |-> None, failed |-> FALSE]

\* the application has opened the database at the current version
InitSchema ==
    /\ idbVersion = DB_VERSION
    /\ idbStores = AllStores
    /\ idbIndexes = AllIndexes
    /\ hasSettings = TRUE
    /\ openHandles = 1
    /\ dbPromise = TRUE
    /\ upgrade = NoUpgrade
    /\ reset = NoReset

NoRead == [fn |-> "none", day |-> 0, completed |-> FALSE, out |-> <<>>]
NoDeleteAll ==
    [pc |-> "idle", keys |-> <<>>, before |-> <<>>, result |-> None]
idleDirect == rd = NoRead /\ da = NoDeleteAll

NoStoreOp == [issued |-> 0, attempts |-> 0, outcome |-> "none"]
NoStats == [tz |-> 0, records |-> <<>>]
NoTagInput == [tags |-> <<>>, emitted |-> <<>>]
NoTracking ==
    [started |-> None, stopped |-> None, totalTime |-> 0,
     inProgress |-> None, tracked |-> 0, calls |-> 0]
NoCascade == [pc |-> "idle", id |-> 0, list |-> <<>>]
NoRmw ==
    [inflight |-> {}, done |-> {}, cascade |-> NoCascade, form |-> None,
     deleted |-> {}]
NoNotice == [shown |-> "none", deleted |-> FALSE, failed |-> FALSE]
idleLate ==
    /\ storeOp = NoStoreOp
    /\ dbStats = NoStats
    /\ catParent = <<>>
    /\ tagList = NoTagInput
    /\ track = NoTracking
    /\ rmw = NoRmw
    /\ notice = NoNotice

idleExt == InitAsync /\ InitSchema /\ idleDirect /\ idleLate

InitStore ==
    /\ dbTodos = <<>>
    /\ dbCategories = {}
    /\ nextId = 1
    /\ nextUuid = 0
    /\ now = T0

InitContainer ==
    /\ todos = <<>>
    /\ categories = <<>>
    /\ selectedDate = T0
    /\ selectedTags = <<>>
    /\ selectedCategories = <<>>
    /\ selectedPriority = None
    /\ searchQuery = <<>>
    /\ completionFilter = "all"
    /\ last = Called("init", 0, FALSE, 0, 0)

Init ==
    InitStore /\ InitContainer /\ idleRt /\ idleFilter /\ idleCalendar /\ idleExt

\* loadData: the container takes over what the Record Store returns
loadData(store, cats) ==
    /\ todos' = getTodos(store)
    /\ categories' = getCategories(cats)

filtersUnchanged ==
    UNCHANGED <<selectedDate, selectedTags, selectedCategories,
                selectedPriority, searchQuery, completionFilter>>

otherUnchanged == UNCHANGED <<rtVars, filterVars, calendarVars, extVars>>

addTodo(x) ==
    /\ nextId <= MaxTodos
    /\ dbTodos' = db_addTodo(dbTodos, x, nextId, now)
    /\ nextId' = nextId + 1
    /\ loadData(dbTodos', dbCategories)
    /\ last' = Called("addTodo", nextId, FALSE, 0, 0)
    /\ UNCHANGED <<dbCategories, nextUuid, now>>
    /\ filtersUnchanged /\ otherUnchanged

deleteTodo(id) ==
    /\ dbTodos' = db_deleteTodo(dbTodos, id)
    /\ loadData(dbTodos', dbCategories)
    /\ last' = Called("deleteTodo", id, FALSE, 0, 0)
    /\ UNCHANGED <<dbCategories, nextId, nextUuid, now>>
    /\ filtersUnchanged /\ otherUnchanged

\* store.toggleCompletion -> db.toggleTodoCompletion -> refreshData
toggleCompletionAs(op, id, completed) ==
    /\ dbTodos' = db_toggleTodoCompletion(dbTodos, id, completed, now)
    /\ loadData(dbTodos', dbCategories)
    /\ last' = Called(op, id, completed, 0, 0)
    /\ UNCHANGED <<dbCategories, nextId, nextUuid, now>>
    /\ filtersUnchanged /\ otherUnchanged

toggleCompletion(id, completed) ==
    toggleCompletionAs("toggleCompletion", id, completed)

\* TodoItem.handleToggle: the object the checkbox hands to onToggle
handleToggle(todo) == [todo EXCEPT !.completed = ~todo.completed]

\* TodoList.handleToggleTodo: the arguments it gives to toggleCompletion
handleToggleTodo(todo) == <<todo.id, ~todo.completed>>

\* the user clicks the checkbox of the i-th task shown in the list
clickCheckbox(i) ==
    LET args == handleToggleTodo(handleToggle(getFilteredTodos[i]))
    IN  toggleCompletionAs("handleToggle", args[1], args[2])

addCategory ==
    /\ nextUuid < MaxCategories
    /\ nextUuid' = nextUuid + 1
    /\ dbCategories' = dbCategories \cup {nextUuid + 1}
    /\ loadData(dbTodos, dbCategories')
    /\ last' = Called("addCategory", 0, FALSE, nextUuid + 1, 0)
    /\ UNCHANGED <<dbTodos, nextId, now>>
    /\ filtersUnchanged /\ otherUnchanged

deleteCategory(id) ==
    /\ dbCategories' = deleteCategory_categories(dbCategories, id)
    /\ dbTodos' = deleteCategory_todos(dbTodos, id)
    /\ loadData(dbTodos', dbCategories')
    /\ last' = Called("deleteCategory", 0, FALSE, id,
                      Len(db_getTodosByCategory(dbTodos, id)))
    /\ UNCHANGED <<nextId, nextUuid, now>>
    /\ filtersUnchanged /\ otherUnchanged

setCompletionFilter(f) ==
    /\ completionFilter' = f
    /\ UNCHANGED <<storeVars, todos, categories, selectedDate, selectedTags,
                   selectedCategories, selectedPriority, searchQuery, last>>
    /\ otherUnchanged

setSelectedDate(d) ==
    /\ selectedDate' = d
    /\ UNCHANGED <<storeVars, todos, categories, selectedTags,
                   selectedCategories, selectedPriority, searchQuery,
                   completionFilter, last>>
    /\ otherUnchanged

clearFilters ==
    /\ selectedTags' = <<>>
    /\ selectedCategories' = <<>>
    /\ selectedPriority' = None
    /\ searchQuery' = <<>>
    /\ completionFilter' = "all"
    /\ UNCHANGED <<storeVars, todos, categories, selectedDate, last>>
    /\ otherUnchanged

\* time passes
Tick ==
    /\ now < T0 + MaxTicks
    /\ now' = now + 1
    /\ UNCHANGED <<dbTodos, dbCategories, nextId, nextUuid>>
    /\ UNCHANGED containerVars
    /\ otherUnchanged

Next ==
    \/ \E x \in FormPayloads : addTodo(x)
    \/ \E id \in 1..(nextId - 1) : deleteTodo(id)
    \/ \E id \in 1..(nextId - 1), c \in BOOLEAN : toggleCompletion(id, c)
    \/ \E i \in 1..Len(getFilteredTodos) : clickCheckbox(i)
    \/ addCategory
    \/ \E id \in dbCategories : deleteCategory(id)
    \/ \E f \in {"all", "completed", "active"} : setCompletionFilter(f)
    \/ setSelectedDate(At(2, 0, 0))
    \/ clearFilters
    \/ Tick

Spec == Init /\ [][Next]_vars

\* the completion toggle alone: uncategorised tasks and the clock
NextToggle ==
    \/ \E x \in FormPayloads : addTodo(x)
    \/ \E id \in 1..(nextId - 1) : deleteTodo(id)
    \/ \E id \in 1..(nextId - 1), c \in BOOLEAN : toggleCompletion(id, c)
    \/ Tick

SpecToggle == Init /\ [][NextToggle]_vars

\* categories and the tasks that reference them
NextCategory ==
    \/ \E x \in {p \in FormPayloads : p.dueDate = None} : addTodo(x)
    \/ \E id \in 1..(nextId - 1) : deleteTodo(id)
    \/ \E id \in 1..(nextId - 1), c \in BOOLEAN : toggleCompletion(id, c)
    \/ addCategory
    \/ \E id \in dbCategories : deleteCategory(id)

SpecCategory == Init /\ [][NextCategory]_vars

----------------------------------------------------------------------------
(* Claims about the checkbox, the completion toggle and the category       *)
(* cascade.                                                                *)

\* C1: checking the checkbox of a listed task inverts its stored completed
\* flag (TodoItem.handleToggle -> TodoList.handleToggleTodo ->
\* store.toggleCompletion -> db.toggleTodoCompletion).
C1_ClickInvertsCompleted ==
    [][\A i \in 1..Len(getFilteredTodos) :
          clickCheckbox(i) =>
              LET id == getFilteredTodos[i].id
              IN  /\ id \in DOMAIN dbTodos'
                  /\ dbTodos'[id].completed = ~dbTodos[id].completed]_vars

\* C2: toggleTodoCompletion(id, c) on a stored task leaves completed = c (so
\* toggling to ~v and then to v returns v), completedAt empty when c is false
\* and the current time when c is true, every other field of the task as it
\* was, and every other task untouched.
C2_ToggleKeepsCompletedAtConsistent ==
    [][\A id \in DOMAIN dbTodos, c \in BOOLEAN :
          toggleCompletion(id, c) =>
              /\ DOMAIN dbTodos' = DOMAIN dbTodos
              /\ dbTodos'[id].completed = c
              /\ dbTodos'[id].completedAt = (IF c THEN Some(now) ELSE None)
              /\ [dbTodos'[id] EXCEPT !.completed = c, !.completedAt = None]
                    = [dbTodos[id] EXCEPT !.completed = c, !.completedAt = None]
              /\ \A k \in DOMAIN dbTodos \ {id} : dbTodos'[k] = dbTodos[k]]_vars

\* C2 witness: a task created earlier has just been toggled to completed and
\* carries the time of the toggle.
C2_Witness ==
    /\ last.op = "toggleCompletion" /\ last.completed
    /\ last.id \in DOMAIN dbTodos
    /\ dbTodos[last.id].completed
    /\ dbTodos[last.id].completedAt = Some(now)
    /\ dbTodos[last.id].createdAt /= Some(now)

defaultFilters ==
    /\ selectedDate = T0
    /\ selectedTags = <<>>
    /\ selectedCategories = <<>>
    /\ selectedPriority = None
    /\ searchQuery = <<>>

\* the task with key id is in the list the view shows after the step
shownAfter(id) ==
    \E i \in 1..Len(getFilteredTodos') : getFilteredTodos'[i].id = id

\* C6: with every filter field but completionFilter at its default, a newly
\* created task is listed under "active" and "all" and not under "completed";
\* after toggleCompletion(id, true) and the reload it is listed under
\* "completed", with completedAt the time of the toggle, and "all", and not
\* under "active".
C6_CompletionFilterScenario ==
    [][/\ \A x \in FormPayloads :
            (addTodo(x) /\ defaultFilters') =>
                (shownAfter(nextId) <=> completionFilter' \in {"active", "all"})
       /\ \A id \in DOMAIN dbTodos :
            (toggleCompletion(id, TRUE) /\ defaultFilters') =>
                /\ shownAfter(id) <=> completionFilter' \in {"completed", "all"}
                /\ \A i \in 1..Len(todos') :
                      todos'[i].id = id => todos'[i].completedAt = Some(now)]_vars

\* C8: deleteCategory(c) removes the category c, keeps every task, and leaves
\* each task that referenced c with categoryId unset and all its other fields
\* as they were.
C8_DeleteCategoryClearsReferences ==
    [][\A c \in dbCategories :
          deleteCategory(c) =>
              /\ c \notin dbCategories'
              /\ DOMAIN dbTodos' = DOMAIN dbTodos
              /\ \A id \in DOMAIN dbTodos :
                    dbTodos[id].categoryId = Some(c) =>
                        dbTodos'[id] = [dbTodos[id] EXCEPT !.categoryId = None]]_vars

\* C8 witness: a category referenced by a stored task has just been deleted
\* and the task is still stored, without a category.
C8_Witness ==
    /\ last.op = "deleteCategory" /\ last.n >= 1
    /\ last.cat \notin dbCategories
    /\ \E id \in DOMAIN dbTodos : dbTodos[id].categoryId = None

----------------------------------------------------------------------------
(* The Record Store called directly: addTodo(x) followed by getTodos().    *)

\* payloads as a caller of db.addTodo may pass them: any optional or
\* defaulted field present or absent
ApiPayloads ==
    [text : {<<"a">>},
     description : {None, Some(<<>>), Some(<<"b">>)},
     completed : BOOLEAN,
     createdAt : {None, Some(At(0, 8, 0))},
     dueDate : {None, Some(At(2, 0, 0))},
     tags : {None, Some(<<>>), Some(<< <<"a">> >>)},
     priority : {None, Some(HIGH)},
     subtasks : {None, Some(<<>>),
                 Some(<<[id |-> 1, text |-> <<"b">>, completed |-> FALSE]>>)},
     notes : {None, Some(<<>>)},
     categoryId : {None, Some(1)},
     completedAt : {None}]

\* a task stored earlier
earlierTodo ==
    [id |-> 1] @@ newTodo([text |-> <<"b">>, description |-> None,
                           completed |-> TRUE, createdAt |-> Some(At(0, 8, 0)),
                           dueDate |-> None, tags |-> Some(<<>>),
                           priority |-> Some(LOW), subtasks |-> Some(<<>>),
                           notes |-> Some(<<>>), categoryId |-> None,
                           completedAt |-> Some(At(0, 9, 0))], At(0, 8, 0))

InitRoundTrip ==
    /\ \/ dbTodos = <<>> /\ nextId = 1
       \/ dbTodos = put(<<>>, earlierTodo) /\ nextId = 2
    /\ dbCategories = {}
    /\ nextUuid = 0
    /\ now = T0
    /\ InitContainer
    /\ rtX \in ApiPayloads
    /\ rtKey = 0
    /\ rtOut = <<>>
    /\ rtPc = "start"
    /\ idleFilter /\ idleCalendar /\ idleExt

\* await addTodo(rtX): remember the key and the time of the call
rtAddTodo ==
    /\ rtPc = "start"
    /\ dbTodos' = db_addTodo(dbTodos, rtX, nextId, now)
    /\ nextId' = nextId + 1
    /\ rtKey' = [id |-> nextId, at |-> now]
    /\ rtPc' = "added"
    /\ UNCHANGED <<dbCategories, nextUuid, now, rtX, rtOut>>
    /\ UNCHANGED <<containerVars, filterVars, calendarVars, extVars>>

\* await getTodos()
rtGetTodos ==
    /\ rtPc = "added"
    /\ rtOut' = getTodos(dbTodos)
    /\ rtPc' = "read"
    /\ UNCHANGED <<storeVars, rtX, rtKey>>
    /\ UNCHANGED <<containerVars, filterVars, calendarVars, extVars>>

rtTick ==
    /\ now < T0 + MaxTicks
    /\ now' = now + 1
    /\ UNCHANGED <<dbTodos, dbCategories, nextId, nextUuid>>
    /\ UNCHANGED <<containerVars, rtVars, filterVars, calendarVars, extVars>>

NextRoundTrip == rtAddTodo \/ rtGetTodos \/ rtTick

SpecRoundTrip == InitRoundTrip /\ [][NextRoundTrip]_vars

\* the record getTodos returned for the key addTodo assigned
rtRecord == CHOOSE r \in {rtOut[i] : i \in 1..Len(rtOut)} : r.id = rtKey.id

rtReturned == \E i \in 1..Len(rtOut) : rtOut[i].id = rtKey.id

\* a collection field: as supplied, or the empty list when omitted
sameOrEmptyList(got, given) ==
    IF given = None THEN got = Some(<<>>) ELSE got = given

\* C7 as stated: the record read back equals the payload in every field but
\* the assigned id and tags, subtasks and notes, which are empty lists when
\* the payload omitted them.
C7_RoundTripExceptCollections ==
    rtPc = "read" =>
        /\ rtReturned
        /\ rtRecord.text = rtX.text
        /\ rtRecord.description = rtX.description
        /\ rtRecord.completed = rtX.completed
        /\ rtRecord.createdAt = rtX.createdAt
        /\ rtRecord.dueDate = rtX.dueDate
        /\ rtRecord.priority = rtX.priority
        /\ rtRecord.categoryId = rtX.categoryId
        /\ rtRecord.completedAt = rtX.completedAt
        /\ sameOrEmptyList(rtRecord.tags, rtX.tags)
        /\ sameOrEmptyList(rtRecord.subtasks, rtX.subtasks)
        /\ sameOrEmptyList(rtRecord.notes, rtX.notes)

\* C7 amended: the record read back equals the payload in every field but
\* the assigned id and the defaulted fields: tags, subtasks and notes are
\* empty lists, description the empty string, priority medium and createdAt
\* the time of the call when the payload omitted them; no supplied field is
\* altered, and exactly one record carries the assigned id.
C7_RoundTripExceptDefaults ==
    rtPc = "read" =>
        /\ Cardinality({i \in 1..Len(rtOut) : rtOut[i].id = rtKey.id}) = 1
        /\ rtRecord.text = rtX.text
        /\ rtRecord.completed = rtX.completed
        /\ rtRecord.dueDate = rtX.dueDate
        /\ rtRecord.categoryId = rtX.categoryId
        /\ rtRecord.completedAt = rtX.completedAt
        /\ sameOrEmptyList(rtRecord.tags, rtX.tags)
        /\ sameOrEmptyList(rtRecord.subtasks, rtX.subtasks)
        /\ sameOrEmptyList(rtRecord.notes, rtX.notes)
        /\ rtRecord.description =
              (IF rtX.description = None THEN Some(<<>>) ELSE rtX.description)
        /\ rtRecord.priority =
              (IF rtX.priority = None THEN Some(MEDIUM) ELSE rtX.priority)
        /\ rtRecord.createdAt =
              (IF rtX.createdAt = None THEN Some(rtKey.at) ELSE rtX.createdAt)

\* C7 witness: a payload without description, tags and createdAt was added
\* beside an earlier task and read back after the clock moved on.
C7_Witness ==
    /\ rtPc = "read"
    /\ Len(rtOut) = 2
    /\ rtX.description = None /\ rtX.tags = None /\ rtX.createdAt = None
    /\ rtX.subtasks /= None /\ rtX.subtasks /= Some(<<>>)
    /\ rtKey.at < now

----------------------------------------------------------------------------
(* filterTodos called on its own: a task list and criteria drawn from      *)
(* bounded sets, filtered once and then once more.                         *)

tagA == <<"a">>
tagB == <<"B">>

Task(text, description, completed, dueDate, tags, priority, categoryId, notes) ==
    [text |-> text, description |-> description, completed |-> completed,
     createdAt |-> Some(T0), dueDate |-> dueDate, tags |-> tags,
     priority |-> Some(priority), subtasks |-> Some(<<>>), notes |-> notes,
     categoryId |-> categoryId,
     completedAt |-> IF completed THEN Some(T0) ELSE None]

\* the tasks the lists are made of; the 13:00 of day 1 is the selected date
FilterPool ==
    << Task(<<"a">>, Some(<<>>), FALSE, None, Some(<<>>), MEDIUM, None,
            Some(<<>>)),
       Task(<<"a">>, Some(<<>>), TRUE, Some(At(1, 9, 0)), Some(<<tagA>>), HIGH,
            Some(1), Some(<<>>)),
       Task(<<"a">>, Some(<<>>), FALSE, Some(At(2, 0, 0)), Some(<<tagA, tagB>>),
            MEDIUM, Some(2), Some(<<>>)),
       Task(<<"A", "b">>, Some(<<"b">>), FALSE, Some(At(1, 0, 0)),
            Some(<<tagB>>), LOW, None, Some(<<>>)),
       Task(<<"a">>, Some(<<>>), TRUE, None, Some(<<tagA, tagB>>), HIGH,
            Some(1), Some(<<[content |-> <<"B">>]>>)),
       Task(<<"b">>, Some(<<"A">>), TRUE, Some(At(2, 9, 0)), Some(<<>>), MEDIUM,
            None, Some(<<>>)),
       Task(<<"a">>, Some(<<>>), FALSE, Some(At(1, 23, 59)),
            Some(<<tagB, tagA>>), HIGH, None, Some(<<>>)),
       Task(<<"a">>, None, FALSE, None, None, MEDIUM, Some(2), None) >>

\* the lists of at most MaxLen pool tasks, keyed 1, 2, ... in list order
FilterLists ==
    LET picks == UNION {[1..n -> 1..Len(FilterPool)] : n \in 0..MaxLen}
    IN  {[i \in 1..Len(pick) |-> [id |-> i] @@ FilterPool[pick[i]]] :
            pick \in picks}

FilterArgs ==
    [list : FilterLists,
     date : {None, Some(At(1, 13, 0))},
     tags : {<<>>, <<tagA>>, <<tagA, tagB>>},
     cats : {<<>>, <<1>>},
     priority : {None, Some(HIGH)},
     query : {<<>>, <<" ">>, <<"B">>},
     completion : {"all", "completed", "active"}]

InitFilter ==
    /\ InitStore /\ InitContainer /\ idleRt /\ idleCalendar /\ idleExt
    /\ fArgs \in FilterArgs
    /\ fResult = <<>>
    /\ fAgain = <<>>
    /\ fPc = "start"

filterWith(list, a) ==
    filterTodos(list, a.date, a.tags, a.cats, a.priority, a.query, a.completion)

applyFilter ==
    /\ fPc = "start"
    /\ fResult' = filterWith(fArgs.list, fArgs)
    /\ fPc' = "filtered"
    /\ UNCHANGED <<fArgs, fAgain>>
    /\ UNCHANGED <<storeVars, containerVars, rtVars, calendarVars, extVars>>

applyFilterAgain ==
    /\ fPc = "filtered"
    /\ fAgain' = filterWith(fResult, fArgs)
    /\ fPc' = "again"
    /\ UNCHANGED <<fArgs, fResult>>
    /\ UNCHANGED <<storeVars, containerVars, rtVars, calendarVars, extVars>>

NextFilter == applyFilter \/ applyFilterAgain

SpecFilter == InitFilter /\ [][NextFilter]_vars

----------------------------------------------------------------------------
(* Claims about filterTodos *)

filtered == fPc \in {"filtered", "again"}

blank(q) == \A i \in 1..Len(q) : q[i] = " "

\* every criterion but the named ones is empty
onlyDate ==
    /\ fArgs.tags = <<>> /\ fArgs.cats = <<>> /\ fArgs.priority = None
    /\ blank(fArgs.query) /\ fArgs.completion = "all"

onlyTags ==
    /\ fArgs.date = None /\ fArgs.cats = <<>> /\ fArgs.priority = None
    /\ blank(fArgs.query) /\ fArgs.completion = "all"

dueOn(todo, day) == IsSome(todo.dueDate) /\ isSameDay(Val(todo.dueDate), day)

tagSet(o) == IF IsSome(o) THEN {Val(o)[i] : i \in 1..Len(Val(o))} ELSE {}

\* C3: with a date selected, the result is exactly the tasks due on that
\* calendar day; a task without a due date is not in it.
C3_DateFilterExact ==
    (filtered /\ IsSome(fArgs.date) /\ onlyDate) =>
        fResult = SelectSeq(fArgs.list, LAMBDA t : dueOn(t, Val(fArgs.date)))

\* C4: with a non-empty tag selection S and every other criterion empty, a
\* task is in the result iff every tag of S is one of its tags.
C4_TagFilterSuperset ==
    (filtered /\ fArgs.tags /= <<>> /\ onlyTags) =>
        fResult = SelectSeq(fArgs.list,
                            LAMBDA t : tagSet(Some(fArgs.tags)) \subseteq tagSet(t.tags))

\* C4 witness: two tags are selected; of two listed tasks the filter kept the
\* one that carries both and dropped one that carries only one of them.
C4_Witness ==
    /\ filtered /\ onlyTags
    /\ Len(fArgs.tags) = 2
    /\ Len(fArgs.list) = 2 /\ Len(fResult) = 1
    /\ \E i \in 1..2 : Cardinality(tagSet(fArgs.list[i].tags)) = 1

\* what the claim asks of a task under each criterion
claimDate(t, d) == IsSome(d) => dueOn(t, Val(d))
claimTags(t, S) == tagSet(Some(S)) \subseteq tagSet(t.tags)
claimCategories(t, C) ==
    C /= <<>> => (IsSome(t.categoryId) /\ \E i \in 1..Len(C) : C[i] = Val(t.categoryId))
claimPriority(t, p) == IsSome(p) => t.priority = p
claimSearch(t, q) ==
    ~blank(q) =>
        LET lq == toLowerCase(q)
            texts == {t.text}
                     \cup (IF IsSome(t.description) THEN {Val(t.description)} ELSE {})
                     \cup tagSet(t.tags)
                     \cup (IF IsSome(t.notes)
                           THEN {Val(t.notes)[i].content : i \in 1..Len(Val(t.notes))}
                           ELSE {})
        IN  \E s \in texts : strIncludes(toLowerCase(s), lq)
claimCompletion(t, c) ==
    CASE c = "completed" -> t.completed
      [] c = "active" -> ~t.completed
      [] OTHER -> TRUE

\* C5: a task is returned iff it satisfies every non-empty criterion (date:
\* due on that calendar day; tags: superset; categories: member; priority:
\* equal; search text; completion state), so with every criterion empty the
\* whole list is returned.
C5_CriteriaConjunction ==
    filtered =>
        fResult = SelectSeq(fArgs.list,
                            LAMBDA t : /\ claimDate(t, fArgs.date)
                                       /\ claimTags(t, fArgs.tags)
                                       /\ claimCategories(t, fArgs.cats)
                                       /\ claimPriority(t, fArgs.priority)
                                       /\ claimSearch(t, fArgs.query)
                                       /\ claimCompletion(t, fArgs.completion))

\* C10: filtering the result again with the same criteria returns it
\* unchanged.
C10_FilterIdempotent == (fPc = "again") => fAgain = fResult

\* C10 witness: the first pass kept one task and dropped another, and the
\* second pass has run.
C10_Witness ==
    /\ fPc = "again"
    /\ Len(fArgs.list) = 2 /\ Len(fResult) = 1

----------------------------------------------------------------------------
(* Calendar day view: the half-hour grid and the all-day list of one day   *)

SlotCount == 48

TIME_SLOTS ==
    [i \in 1..SlotCount |->
        [hour |-> (i - 1) \div 2,
         minute |-> IF (i - 1) % 2 = 0 THEN 0 ELSE 30]]

addDays(d, n) == d + n * MinutesPerDay
addHours(d, n) == d + n * 60
addMinutes(d, n) == d + n

isWithinInterval(d, start, end) == start <= d /\ d <= end

getTodosForDay(list, day) ==
    LET dayStart == startOfDay(day)
        dayEnd == addDays(dayStart, 1)
        keep(todo) ==
            IF ~IsSome(todo.dueDate) THEN FALSE
            ELSE LET dueDate == Val(todo.dueDate)
                 IN  IF getHours(dueDate) /= 0 \/ getMinutes(dueDate) /= 0
                     THEN isWithinInterval(dueDate, dayStart, dayEnd)
                     ELSE isSameDay(dueDate, day)
    IN  SelectSeq(list, keep)

\* a slot lookup without the exclusion of midnight tasks
getTodosForTimeSlot_withMidnight(list, day, hour, minute) ==
    LET keep(todo) ==
            IF ~IsSome(todo.dueDate) THEN FALSE
            ELSE LET dueDate == Val(todo.dueDate)
                     dueHour == getHours(dueDate)
                     dueMinute == getMinutes(dueDate)
                 IN  /\ isSameDay(dueDate, day)
                     /\ dueHour = hour
                     /\ (IF minute = 0 THEN dueMinute < 30 ELSE dueMinute >= 30)
    IN  SelectSeq(list, keep)

getTodosForTimeSlot(list, day, hour, minute) ==
    LET keep(todo) ==
            IF ~IsSome(todo.dueDate) THEN FALSE
            ELSE LET dueDate == Val(todo.dueDate)
                     dueHour == getHours(dueDate)
                     dueMinute == getMinutes(dueDate)
                 IN  IF dueHour = 0 /\ dueMinute = 0 THEN FALSE
                     ELSE /\ isSameDay(dueDate, day)
                          /\ dueHour = hour
                          /\ (IF minute = 0 THEN dueMinute < 30 ELSE dueMinute >= 30)
    IN  SelectSeq(list, keep)

\* the all-day list under the grid
allDayTodos(list, day) ==
    SelectSeq(getTodosForDay(list, day),
              LAMBDA todo : /\ getHours(Val(todo.dueDate)) = 0
                            /\ getMinutes(Val(todo.dueDate)) = 0)

CalendarDues ==
    {None, Some(At(0, 23, 59)), Some(At(1, 0, 0)), Some(At(1, 0, 15)),
     Some(At(1, 0, 30)), Some(At(1, 9, 0)), Some(At(1, 9, 29)),
     Some(At(1, 9, 30)), Some(At(1, 23, 59)), Some(At(2, 0, 0)),
     Some(At(2, 9, 0))}

CalendarLists ==
    LET picks == UNION {[1..n -> CalendarDues] : n \in 0..MaxLen}
    IN  {[i \in 1..Len(pick) |-> [id |-> i, dueDate |-> pick[i]]] :
            pick \in picks}

InitCalendar ==
    /\ InitStore /\ InitContainer /\ idleRt /\ idleFilter /\ idleExt
    /\ cTodos \in CalendarLists
    /\ cDay \in {At(1, 0, 0), At(1, 13, 0)}
    /\ cAllDay = <<>>
    /\ cSlots = <<>>
    /\ cPc = "start"

renderDayView ==
    /\ cPc = "start"
    /\ cSlots' = [i \in 1..SlotCount |->
                     getTodosForTimeSlot(cTodos, cDay, TIME_SLOTS[i].hour,
                                         TIME_SLOTS[i].minute)]
    /\ cAllDay' = allDayTodos(cTodos, cDay)
    /\ cPc' = "rendered"
    /\ UNCHANGED <<cTodos, cDay>>
    /\ UNCHANGED <<storeVars, containerVars, rtVars, filterVars, extVars>>

NextCalendar == renderDayView

SpecCalendar == InitCalendar /\ [][NextCalendar]_vars

----------------------------------------------------------------------------
(* Claim about the day view *)

\* how many times the task with this id occurs in a rendered list
occurrences(list, id) == Cardinality({k \in 1..Len(list) : list[k].id = id})

slotsHolding(id) == {i \in 1..SlotCount : occurrences(cSlots[i], id) > 0}

\* the half-hour slot of a due time: its hour, minute 0 below 30, else 30
slotOf(d) == 2 * getHours(d) + (IF getMinutes(d) < 30 THEN 0 ELSE 1) + 1

\* C9: in the day view of day D, a task due on D at exactly 00:00 is in the
\* all-day list and in no half-hour slot; any other task due on D is in
\* exactly one slot, the one of its due hour and half hour, and not in the
\* all-day list.
C9_DayViewOneBucket ==
    (cPc = "rendered") =>
        \A k \in 1..Len(cTodos) :
            LET todo == cTodos[k]
                d == Val(todo.dueDate)
            IN  dueOn(todo, cDay) =>
                    IF getHours(d) = 0 /\ getMinutes(d) = 0
                    THEN /\ occurrences(cAllDay, todo.id) = 1
                         /\ slotsHolding(todo.id) = {}
                    ELSE /\ occurrences(cAllDay, todo.id) = 0
                         /\ slotsHolding(todo.id) = {slotOf(d)}
                         /\ occurrences(cSlots[slotOf(d)], todo.id) = 1
                         /\ TIME_SLOTS[slotOf(d)].hour = getHours(d)

\* C9 witness: the rendered day holds a midnight task in its all-day list
\* and a task due in the second half of an hour in a slot.
C9_Witness ==
    /\ cPc = "rendered"
    /\ Len(cAllDay) = 1
    /\ \E i \in 1..SlotCount : TIME_SLOTS[i].minute = 30 /\ Len(cSlots[i]) = 1

----------------------------------------------------------------------------
(* Claim about the purity of the filter *)

\* res picks elements of list at strictly increasing positions
isSubsequenceOf(res, list) ==
    \E f \in [1..Len(res) -> 1..Len(list)] :
        /\ \A i, j \in 1..Len(res) : i < j => f[i] < f[j]
        /\ \A i \in 1..Len(res) : res[i] = list[f[i]]

\* C11: a call of filterTodos returns a subsequence of its input (the same
\* tasks, in the same relative order, none added) and changes neither its
\* arguments nor any field of the State Container or of the Record Store.
C11_FilterPureAndStable ==
    [][applyFilter =>
          /\ isSubsequenceOf(fResult', fArgs.list)
          /\ UNCHANGED <<fArgs, storeVars, containerVars>>]_vars

\* C11 witness: of two listed tasks the call dropped the first and returned
\* the second.
C11_Witness ==
    /\ fPc = "filtered"
    /\ Len(fArgs.list) = 2
    /\ Len(fResult) = 1 /\ fResult[1].id = 2

----------------------------------------------------------------------------
(* The State Container as the asynchronous program it is: a mutator awaits *)
(* its Record Store call; on success refreshData starts loadData without   *)
(* awaiting it; loadData awaits its reads and then sets the container.     *)

MaxCalls == 2           \* mutator calls in one behaviour
MaxAppLoads == 1        \* loadData calls of the App component in one behaviour

Themes == [lightTheme |-> "light", darkTheme |-> "dark"]

\* mutators that finish with get().refreshData()
ReloadingMutators ==
    {"addTodo", "deleteTodo", "toggleCompletion", "addCategory", "deleteCategory"}

\* the task the form submits in this part of the model
submittedTodo ==
    [text |-> <<"a">>, description |-> None, completed |-> FALSE,
     createdAt |-> Some(now), dueDate |-> None, tags |-> Some(<<>>),
     priority |-> Some(MEDIUM), subtasks |-> Some(<<>>), notes |-> Some(<<>>),
     categoryId |-> None, completedAt |-> None]

MutatorCall(n, name, id, flag) == [n |-> n, name |-> name, id |-> id, flag |-> flag]

addTodoCalls == {c \in calls : c.name = "addTodo"}
addCategoryCalls == {c \in calls : c.name = "addCategory"}

\* the arguments the user interface can pass to each mutator
MutatorArgs ==
    [name : {"addTodo"}, id : {0}, flag : {FALSE}]
    \cup [name : {"deleteTodo"}, id : DOMAIN dbTodos, flag : {FALSE}]
    \cup [name : {"toggleCompletion"}, id : DOMAIN dbTodos, flag : BOOLEAN]
    \cup [name : {"addCategory"}, id : {0}, flag : {FALSE}]
    \cup [name : {"deleteCategory"}, id : dbCategories, flag : {FALSE}]
    \cup [name : {"updateSettings"}, id : {0}, flag : BOOLEAN]

\* a mutator is called: it enters its try block and awaits its db call
callMutator(a) ==
    /\ issued.calls < MaxCalls
    /\ a.name = "addTodo" => nextId + Cardinality(addTodoCalls) <= MaxTodos
    /\ a.name = "addCategory" =>
          nextUuid + Cardinality(addCategoryCalls) < MaxCategories
    /\ calls' = calls \cup {MutatorCall(issued.calls + 1, a.name, a.id, a.flag)}
    /\ issued' = [issued EXCEPT !.calls = @ + 1]
    /\ UNCHANGED <<dbSettings, settings, isLoading, refreshTrigger, loads>>
    /\ UNCHANGED <<storeVars, containerVars, rtVars, filterVars, calendarVars, schemaVars, directVars, lateVars>>

\* the effect of the awaited db function on the Record Store
dbCall_todos(c) ==
    CASE c.name = "addTodo" -> db_addTodo(dbTodos, submittedTodo, nextId, now)
      [] c.name = "deleteTodo" -> db_deleteTodo(dbTodos, c.id)
      [] c.name = "toggleCompletion" ->
             db_toggleTodoCompletion(dbTodos, c.id, c.flag, now)
      [] c.name = "deleteCategory" -> deleteCategory_todos(dbTodos, c.id)
      [] OTHER -> dbTodos

dbCall_categories(c) ==
    CASE c.name = "addCategory" -> dbCategories \cup {nextUuid + 1}
      [] c.name = "deleteCategory" -> deleteCategory_categories(dbCategories, c.id)
      [] OTHER -> dbCategories

dbCall_settings(c) ==
    IF c.name = "updateSettings"
    THEN (IF c.flag THEN Themes.darkTheme ELSE Themes.lightTheme)
    ELSE dbSettings

NewLoad(n) == [n |-> n, todos |-> None, categories |-> None, settings |-> None]

\* loadData up to its first await: isLoading is set, the reads are issued
startLoadData ==
    /\ isLoading' = TRUE
    /\ loads' = loads \cup {NewLoad(issued.loads + 1)}

\* refreshData: loadData is started, not awaited, and the trigger is bumped
refreshData ==
    /\ startLoadData
    /\ refreshTrigger' = refreshTrigger + 1

\* a container in which every mutator, updateSettings too, ends in refreshData
afterDbCall_alwaysReloads(c) ==
    /\ refreshData
    /\ issued' = [issued EXCEPT !.loads = @ + 1]
    /\ UNCHANGED settings

\* what a mutator does once its db call has resolved
afterDbCall(c) ==
    IF c.name \in ReloadingMutators
    THEN /\ refreshData
         /\ issued' = [issued EXCEPT !.loads = @ + 1]
         /\ UNCHANGED settings
    ELSE /\ settings' = Some(dbCall_settings(c))
         /\ UNCHANGED <<isLoading, refreshTrigger, loads, issued>>

\* a mutator that refreshes in a finally block, after a failure too
catchBlock_refreshes(c) ==
    /\ refreshData
    /\ issued' = [issued EXCEPT !.loads = @ + 1]
    /\ UNCHANGED settings

\* the catch block of a mutator: the error is logged
catchBlock(c) ==
    UNCHANGED <<settings, isLoading, refreshTrigger, loads, issued>>

dbCallSucceeds(c) ==
    /\ c \in calls
    /\ dbTodos' = dbCall_todos(c)
    /\ dbCategories' = dbCall_categories(c)
    /\ dbSettings' = dbCall_settings(c)
    /\ nextId' = IF c.name = "addTodo" THEN nextId + 1 ELSE nextId
    /\ nextUuid' = IF c.name = "addCategory" THEN nextUuid + 1 ELSE nextUuid
    /\ calls' = calls \ {c}
    /\ afterDbCall(c)
    /\ UNCHANGED <<now, containerVars, rtVars, filterVars, calendarVars, schemaVars, directVars, lateVars>>

\* the db call rejects; deleteCategory may have deleted the category before
\* the step that failed
dbCallFails(c) ==
    /\ c \in calls
    /\ \/ UNCHANGED dbCategories
       \/ c.name = "deleteCategory" /\ dbCategories' = dbCall_categories(c)
    /\ calls' = calls \ {c}
    /\ catchBlock(c)
    /\ UNCHANGED <<dbTodos, nextId, nextUuid, now, dbSettings>>
    /\ UNCHANGED <<containerVars, rtVars, filterVars, calendarVars, schemaVars, directVars, lateVars>>

\* one of the reads of loadData's Promise.all resolves
loadRead_todos(l) ==
    /\ l \in loads /\ l.todos = None
    /\ loads' = (loads \ {l}) \cup {[l EXCEPT !.todos = Some(getTodos(dbTodos))]}

loadRead_categories(l) ==
    /\ l \in loads /\ l.categories = None
    /\ loads' = (loads \ {l})
                \cup {[l EXCEPT !.categories = Some(getCategories(dbCategories))]}

loadRead_settings(l) ==
    /\ l \in loads /\ l.settings = None
    /\ loads' = (loads \ {l}) \cup {[l EXCEPT !.settings = Some(dbSettings)]}

loadRead(l) ==
    /\ loadRead_todos(l) \/ loadRead_categories(l) \/ loadRead_settings(l)
    /\ UNCHANGED <<dbSettings, settings, isLoading, refreshTrigger, calls, issued>>
    /\ UNCHANGED <<storeVars, containerVars, rtVars, filterVars, calendarVars, schemaVars, directVars, lateVars>>

\* every read of the Promise.all has resolved; getStatsRange is awaited
readsDone(l) == IsSome(l.todos) /\ IsSome(l.categories) /\ IsSome(l.settings)

\* getStatsRange resolves and loadData sets what it read
loadSet(l) ==
    /\ l \in loads /\ readsDone(l)
    /\ todos' = Val(l.todos)
    /\ categories' = Val(l.categories)
    /\ settings' = l.settings
    /\ isLoading' = FALSE
    /\ loads' = loads \ {l}
    /\ issued' = [issued EXCEPT !.sets = @ + 1]
    /\ UNCHANGED <<dbSettings, refreshTrigger, calls>>
    /\ UNCHANGED <<last, rtVars, filterVars, calendarVars, schemaVars, directVars, lateVars>>
    /\ filtersUnchanged
    /\ UNCHANGED storeVars

\* a read rejects: the catch block of loadData
loadFails(l) ==
    /\ l \in loads
    /\ isLoading' = FALSE
    /\ loads' = loads \ {l}
    /\ UNCHANGED <<dbSettings, settings, refreshTrigger, calls, issued>>
    /\ UNCHANGED <<storeVars, containerVars, rtVars, filterVars, calendarVars, schemaVars, directVars, lateVars>>

\* App: the mount effect, handleNewTodoSubmit, handleEditTodoSubmit and
\* handleDatabaseReset call loadData themselves
appLoadData ==
    /\ issued.appLoads < MaxAppLoads
    /\ startLoadData
    /\ issued' = [issued EXCEPT !.loads = @ + 1, !.appLoads = @ + 1]
    /\ UNCHANGED <<dbSettings, settings, refreshTrigger, calls>>
    /\ UNCHANGED <<storeVars, containerVars, rtVars, filterVars, calendarVars, schemaVars, directVars, lateVars>>

NextAsync ==
    \/ \E a \in MutatorArgs : callMutator(a)
    \/ \E c \in calls : dbCallSucceeds(c)
    \/ \E c \in calls : dbCallFails(c)
    \/ appLoadData
    \/ \E l \in loads : loadRead(l)
    \/ \E l \in loads : loadSet(l)
    \/ \E l \in loads : loadFails(l)

SpecAsync == Init /\ [][NextAsync]_vars

\* a loadData whose reads and whose set are not interleaved with anything
loadRuns(l) ==
    /\ l \in loads /\ l = NewLoad(l.n)
    /\ loadData(dbTodos, dbCategories)
    /\ settings' = Some(dbSettings)
    /\ isLoading' = FALSE
    /\ loads' = loads \ {l}
    /\ issued' = [issued EXCEPT !.sets = @ + 1]
    /\ UNCHANGED <<dbSettings, refreshTrigger, calls>>
    /\ UNCHANGED <<last, rtVars, filterVars, calendarVars, schemaVars, directVars, lateVars>>
    /\ filtersUnchanged
    /\ UNCHANGED storeVars

\* the mutators alone: calls that succeed or fail, reloads that run at once
NextMutators ==
    \/ \E a \in MutatorArgs : callMutator(a)
    \/ \E c \in calls : dbCallSucceeds(c)
    \/ \E c \in calls : dbCallFails(c)
    \/ \E l \in loads : loadRuns(l)

SpecMutators == Init /\ [][NextMutators]_vars

----------------------------------------------------------------------------
(* Claims about the mutators of the State Container *)

\* the fields of the State Container the model carries
containerFields ==
    <<todos, categories, settings, selectedDate, selectedTags,
      selectedCategories, selectedPriority, searchQuery, completionFilter,
      isLoading, refreshTrigger>>

\* C12: when the Record Store call of a mutator fails, the mutator ends
\* without throwing, starts no reload and leaves every field of the State
\* Container as it was.
C12_FailedMutatorIsNoOp ==
    [][\A c \in calls :
          dbCallFails(c) =>
              /\ c \notin calls'
              /\ loads' = loads
              /\ UNCHANGED containerFields]_vars

\* C12 witness: two mutators were called and both are over; one reloaded the
\* container, which shows the task it added, the other failed (no settings
\* were written, and only one reload was ever started).
C12_Witness ==
    /\ calls = {} /\ loads = {}
    /\ issued.calls = 2 /\ issued.loads = 1
    /\ dbSettings = DefaultTheme
    /\ Len(todos) = 1

\* the operations on object stores that the db function a mutator awaits
\* performs: db.add, db.delete, db.get then db.put, and for deleteCategory
\* the delete, the index read and one put per task of the category
storeOperations(c) ==
    CASE c.name = "addTodo" -> 1
      [] c.name = "deleteTodo" -> 1
      [] c.name = "toggleCompletion" ->
             IF c.id \in DOMAIN dbTodos THEN 2 ELSE 1
      [] c.name = "addCategory" -> 1
      [] c.name = "deleteCategory" ->
             2 + Len(db_getTodosByCategory(dbTodos, c.id))
      [] c.name = "updateSettings" -> 2

\* refreshData has run in this step: one more loadData is running, isLoading
\* is set and the trigger went up by one
reloadStarted ==
    /\ loads' = loads \cup {NewLoad(issued.loads + 1)}
    /\ NewLoad(issued.loads + 1) \notin loads
    /\ isLoading'
    /\ refreshTrigger' = refreshTrigger + 1

\* C18 as stated: every mutator whose db call succeeds has made exactly one
\* read or write against the store and then starts a full reload.
C18_EveryMutatorReloads ==
    [][\A c \in calls :
          dbCallSucceeds(c) =>
              /\ storeOperations(c) = 1
              /\ reloadStarted]_vars

\* C18 amended: every mutator awaits one db function, which performs one or
\* more store operations; when it resolves, every mutator except
\* updateSettings starts a reload and leaves settings alone, while
\* updateSettings starts none and sets settings to the stored record; and a
\* reload that runs sets todos, categories and settings from the store.
C18_MutatorsReloadExceptSettings ==
    [][/\ \A c \in calls :
            dbCallSucceeds(c) =>
                /\ c \notin calls'
                /\ storeOperations(c) >= 1
                /\ IF c.name = "updateSettings"
                   THEN /\ settings' = Some(dbSettings')
                        /\ UNCHANGED <<loads, isLoading, refreshTrigger>>
                   ELSE /\ reloadStarted
                        /\ UNCHANGED settings
       /\ \A l \in loads :
            loadRuns(l) =>
                /\ todos' = getTodos(dbTodos)
                /\ categories' = getCategories(dbCategories)
                /\ settings' = Some(dbSettings)]_vars

\* C18 witness: addTodo succeeded and its reload ran, then updateSettings
\* succeeded: the container shows the new theme and no second reload was
\* started.
C18_Witness ==
    /\ calls = {} /\ loads = {}
    /\ issued.calls = 2 /\ issued.loads = 1
    /\ Len(todos) = 1
    /\ dbSettings = Themes.darkTheme
    /\ settings = Some(Themes.darkTheme)

----------------------------------------------------------------------------
(* Opening the database: initDB, openDB and the upgrade callback.  The     *)
(* upgrade runs in one versionchange transaction; an exception, and the    *)
(* ConstraintError of creating what exists, aborts it.                     *)

Schema(stores, indexes, settingsRecord) ==
    [stores |-> stores, indexes |-> indexes, hasSettings |-> settingsRecord]

\* what the steps of the upgrade callback have created up to version v
schemaAt(v) ==
    IF v < 1 THEN Schema({}, {}, FALSE)
    ELSE IF v < 3 THEN Schema({TODO_STORE}, indexesV1, FALSE)
    ELSE Schema(AllStores, AllIndexes, TRUE)

\* initDB with no cached connection: openDB is called and cached; a database
\* below DB_VERSION gets the upgrade callback
initDB ==
    /\ ~dbPromise /\ upgrade.pc = "idle"
    /\ dbPromise' = TRUE
    /\ upgrade' = [pc |-> IF idbVersion < DB_VERSION THEN "v1" ELSE "commit",
                   oldVersion |-> idbVersion, clash |-> FALSE,
                   before |-> Schema(idbStores, idbIndexes, hasSettings)]
    /\ UNCHANGED <<idbVersion, idbStores, idbIndexes, hasSettings, openHandles,
                   dbSettings>>

\* the stores and indexes each step of the callback creates, in code order
UpgradeSteps ==
    <<"v1", "v2", "v3categories", "v3settings", "v3templates", "v3stats",
      "v3indexes", "commit">>

nextStep(pc) ==
    LET i == CHOOSE k \in 1..Len(UpgradeSteps) : UpgradeSteps[k] = pc
    IN  UpgradeSteps[i + 1]

guardedStore(name, oldVersion) ==
    IF oldVersion < 3 /\ name \notin idbStores THEN {name} ELSE {}

\* an upgrade whose first step also runs on a version 1 database
storesToCreate_v1Again(pc, oldVersion) ==
    CASE pc = "v1" -> IF oldVersion < 2 THEN {TODO_STORE} ELSE {}
      [] pc = "v3categories" -> guardedStore(CATEGORY_STORE, oldVersion)
      [] pc = "v3settings" -> guardedStore(SETTINGS_STORE, oldVersion)
      [] pc = "v3templates" -> guardedStore(TEMPLATE_STORE, oldVersion)
      [] pc = "v3stats" -> guardedStore(STATS_STORE, oldVersion)
      [] OTHER -> {}

storesToCreate(pc, oldVersion) ==
    CASE pc = "v1" -> IF oldVersion < 1 THEN {TODO_STORE} ELSE {}
      [] pc = "v3categories" -> guardedStore(CATEGORY_STORE, oldVersion)
      [] pc = "v3settings" -> guardedStore(SETTINGS_STORE, oldVersion)
      [] pc = "v3templates" -> guardedStore(TEMPLATE_STORE, oldVersion)
      [] pc = "v3stats" -> guardedStore(STATS_STORE, oldVersion)
      [] OTHER -> {}

indexesToCreate(pc, oldVersion) ==
    CASE pc = "v1" -> IF oldVersion < 1 THEN indexesV1 ELSE {}
      [] pc = "v3indexes" ->
             IF oldVersion < 3 /\ TODO_STORE \in idbStores
             THEN {indexesToAdd[i] : i \in 1..Len(indexesToAdd)} \ idbIndexes
             ELSE {}
      [] OTHER -> {}

\* the versionchange transaction aborts: the schema is as before the open
abortUpgrade(clash) ==
    /\ idbStores' = upgrade.before.stores
    /\ idbIndexes' = upgrade.before.indexes
    /\ hasSettings' = upgrade.before.hasSettings
    /\ upgrade' = [upgrade EXCEPT !.pc = "failed", !.clash = clash]
    /\ UNCHANGED dbSettings

upgradeStep ==
    /\ upgrade.pc \in {UpgradeSteps[i] : i \in 1..Len(UpgradeSteps) - 1}
    /\ LET newStores == storesToCreate(upgrade.pc, upgrade.oldVersion)
           newIndexes == indexesToCreate(upgrade.pc, upgrade.oldVersion)
       IN  IF newStores \cap idbStores /= {} \/ newIndexes \cap idbIndexes /= {}
           THEN abortUpgrade(TRUE)
           ELSE /\ idbStores' = idbStores \cup newStores
                /\ idbIndexes' = idbIndexes \cup newIndexes
                /\ hasSettings' = (hasSettings \/ SETTINGS_STORE \in newStores)
                /\ dbSettings' = IF SETTINGS_STORE \in newStores
                                 THEN DefaultTheme ELSE dbSettings
                /\ upgrade' = [upgrade EXCEPT !.pc = nextStep(@)]
    /\ UNCHANGED <<idbVersion, openHandles, dbPromise>>

\* the open request fails for a reason of the browser's (quota, storage)
upgradeFails ==
    /\ upgrade.pc \in {UpgradeSteps[i] : i \in 1..Len(UpgradeSteps)}
    /\ abortUpgrade(FALSE)
    /\ UNCHANGED <<idbVersion, openHandles, dbPromise>>

\* the transaction commits and the connection is open
openSucceeds ==
    /\ upgrade.pc = "commit"
    /\ idbVersion' = DB_VERSION
    /\ openHandles' = openHandles + 1
    /\ upgrade' = [upgrade EXCEPT !.pc = "open"]
    /\ UNCHANGED <<idbStores, idbIndexes, hasSettings, dbPromise, dbSettings>>


\* a task written before tags, priority, subtasks and notes existed, and a
\* task as addTodo writes it today
legacyTodo ==
    [text |-> <<"a">>, description |-> None, completed |-> FALSE,
     createdAt |-> Some(At(0, 9, 0)), dueDate |-> Some(At(1, 9, 0)),
     tags |-> None, priority |-> None, subtasks |-> None, notes |-> None,
     categoryId |-> None, completedAt |-> None]

currentTodo ==
    Task(<<"a">>, Some(<<>>), FALSE, Some(At(1, 9, 0)), Some(<<tagA>>), HIGH,
         Some(1), Some(<<>>))

\* the task collections of at most MaxTodos of the given records
RawStoresOf(records) ==
    LET picks == UNION {[1..n -> records] : n \in 0..MaxTodos}
    IN  {[k \in DOMAIN pick |-> [id |-> k] @@ pick[k]] : pick \in picks}

\* a database some earlier version of the application has left behind
InitOldDatabase ==
    /\ idbVersion \in 0..(DB_VERSION - 1)
    /\ idbStores = schemaAt(idbVersion).stores
    /\ idbIndexes = schemaAt(idbVersion).indexes
    /\ hasSettings = schemaAt(idbVersion).hasSettings
    /\ dbTodos \in (IF idbVersion < 1 THEN {<<>>}
                    ELSE IF idbVersion < 3 THEN RawStoresOf({legacyTodo})
                    ELSE RawStoresOf({legacyTodo, currentTodo}))
    /\ dbCategories \in (IF idbVersion < 3 THEN {{}} ELSE {{}, {1}})
    /\ dbSettings \in (IF idbVersion < 3 THEN {NoTheme}
                       ELSE {DefaultTheme, Themes.darkTheme})
    /\ nextId = Len(dbTodos) + 1
    /\ nextUuid = Cardinality(dbCategories)
    /\ now = T0
    /\ openHandles = 0
    /\ dbPromise = FALSE
    /\ upgrade = NoUpgrade
    /\ reset = NoReset
    /\ InitContainer /\ idleRt /\ idleFilter /\ idleCalendar /\ idleAsync
    /\ idleDirect /\ idleLate

schemaFrame ==
    UNCHANGED <<storeVars, containerVars, rtVars, filterVars, calendarVars,
                settings, isLoading, refreshTrigger, calls, loads, issued,
                reset, directVars, lateVars>>

NextOpen ==
    \/ initDB /\ schemaFrame
    \/ upgradeStep /\ schemaFrame
    \/ upgradeFails /\ schemaFrame
    \/ openSucceeds /\ schemaFrame

SpecOpen == InitOldDatabase /\ [][NextOpen]_vars

----------------------------------------------------------------------------
(* Claim about the schema migration *)

\* C20: an open from any earlier schema version (0 to 5, holding what that
\* version had created) that succeeds ends with the five collections, the
\* settings record and the eight indexes of the task collection present;
\* and no step creates a collection or an index that already exists.
C20_UpgradeCompletesSchema ==
    /\ ~upgrade.clash
    /\ upgrade.pc = "open" =>
          /\ idbVersion = DB_VERSION
          /\ idbStores = AllStores
          /\ idbIndexes = AllIndexes
          /\ Cardinality(idbIndexes) = 8
          /\ hasSettings
          /\ upgrade.oldVersion < 3 => dbSettings = DefaultTheme

\* C20 witness: a version 1 database holding a task of that time has been
\* opened; the upgrade added the four later collections to it.
C20_Witness ==
    /\ upgrade.pc = "open" /\ upgrade.oldVersion = 1
    /\ upgrade.before.stores = {TODO_STORE}
    /\ Len(dbTodos) = 1
    /\ idbStores = AllStores

----------------------------------------------------------------------------
(* resetDatabase: the cached connection is forgotten (not closed), the     *)
(* database is deleted, reopened and reseeded; any rejection is caught.    *)

\* what the catch block returns
resetCatch_rethrows == [pc |-> "thrown", result |-> None, failed |-> TRUE]

resetCatch == [pc |-> "done", result |-> Some(FALSE), failed |-> TRUE]

resetFrame ==
    UNCHANGED <<containerVars, rtVars, filterVars, calendarVars, settings,
                isLoading, refreshTrigger, calls, loads, issued, directVars, lateVars>>

\* dbPromise = null; await deleteDB(DB_NAME) is issued
resetStart ==
    /\ reset.pc = "idle" /\ upgrade.pc = "idle"
    /\ dbPromise' = FALSE
    /\ reset' = [reset EXCEPT !.pc = "deleting"]
    /\ UNCHANGED <<storeVars, dbSettings, idbVersion, idbStores, idbIndexes,
                   hasSettings, openHandles, upgrade>>

\* a connection nothing refers to any more is closed when the garbage
\* collector finds it
gcClosesHandle ==
    /\ ~dbPromise /\ openHandles > 0
    /\ openHandles' = 0
    /\ UNCHANGED <<storeVars, dbSettings, idbVersion, idbStores, idbIndexes,
                   hasSettings, dbPromise, upgrade, reset>>

\* deleteDB resolves: the delete request runs once no connection is open
deleteSucceeds ==
    /\ reset.pc = "deleting" /\ openHandles = 0
    /\ idbVersion' = 0
    /\ idbStores' = {}
    /\ idbIndexes' = {}
    /\ hasSettings' = FALSE
    /\ dbTodos' = <<>>
    /\ dbCategories' = {}
    /\ dbSettings' = NoTheme
    /\ nextId' = 1
    /\ reset' = [reset EXCEPT !.pc = "reopen"]
    /\ UNCHANGED <<nextUuid, now, openHandles, dbPromise, upgrade>>

deleteFails ==
    /\ reset.pc = "deleting"
    /\ reset' = resetCatch
    /\ UNCHANGED <<storeVars, dbSettings, idbVersion, idbStores, idbIndexes,
                   hasSettings, openHandles, dbPromise, upgrade>>

\* dbPromise = null; await initDB()
resetReopen ==
    /\ reset.pc = "reopen"
    /\ initDB
    /\ reset' = [reset EXCEPT !.pc = "opening"]
    /\ UNCHANGED storeVars

\* initDB has resolved; initDefaultSettings is awaited
resetOpened ==
    /\ reset.pc = "opening" /\ upgrade.pc = "open"
    /\ upgrade' = NoUpgrade
    /\ reset' = [reset EXCEPT !.pc = "seeding"]
    /\ UNCHANGED <<storeVars, dbSettings, idbVersion, idbStores, idbIndexes,
                   hasSettings, openHandles, dbPromise>>

resetOpenFailed ==
    /\ reset.pc = "opening" /\ upgrade.pc = "failed"
    /\ upgrade' = NoUpgrade
    /\ reset' = resetCatch
    /\ UNCHANGED <<storeVars, dbSettings, idbVersion, idbStores, idbIndexes,
                   hasSettings, openHandles, dbPromise>>

\* initDefaultSettings: the default record is put unless a record is there
initDefaultSettings ==
    /\ hasSettings' = TRUE
    /\ dbSettings' = IF hasSettings THEN dbSettings ELSE DefaultTheme

seedSucceeds ==
    /\ reset.pc = "seeding"
    /\ initDefaultSettings
    /\ reset' = [reset EXCEPT !.pc = "done", !.result = Some(TRUE)]
    /\ UNCHANGED <<storeVars, idbVersion, idbStores, idbIndexes, openHandles,
                   dbPromise, upgrade>>

seedFails ==
    /\ reset.pc = "seeding"
    /\ reset' = resetCatch
    /\ UNCHANGED <<storeVars, dbSettings, idbVersion, idbStores, idbIndexes,
                   hasSettings, openHandles, dbPromise, upgrade>>

upgradeFrame == UNCHANGED <<storeVars, reset>>

NextReset ==
    \/ resetStart /\ resetFrame
    \/ gcClosesHandle /\ resetFrame
    \/ deleteSucceeds /\ resetFrame
    \/ deleteFails /\ resetFrame
    \/ resetReopen /\ resetFrame
    \/ upgradeStep /\ upgradeFrame /\ resetFrame
    \/ upgradeFails /\ upgradeFrame /\ resetFrame
    \/ openSucceeds /\ upgradeFrame /\ resetFrame
    \/ resetOpened /\ resetFrame
    \/ resetOpenFailed /\ resetFrame
    \/ seedSucceeds /\ resetFrame
    \/ seedFails /\ resetFrame

\* the application is running on a database with some contents
InitReset ==
    /\ dbTodos \in RawStoresOf({legacyTodo, currentTodo})
    /\ dbCategories \in {{}, {1}}
    /\ dbSettings \in {DefaultTheme, Themes.darkTheme}
    /\ nextId = Len(dbTodos) + 1
    /\ nextUuid = Cardinality(dbCategories)
    /\ now = T0
    /\ InitSchema
    /\ InitContainer /\ idleRt /\ idleFilter /\ idleCalendar /\ idleAsync
    /\ idleDirect /\ idleLate

SpecReset == InitReset /\ [][NextReset]_vars

----------------------------------------------------------------------------
(* Claims about resetDatabase *)

\* C13: resetDatabase never throws; it returns true when every step
\* succeeded and false when a step (deleting the database, reopening it,
\* seeding the default settings) failed.
C13_ResetReturnsSuccessFlag ==
    /\ reset.pc /= "thrown"
    /\ reset.pc = "done" =>
          /\ IsSome(reset.result)
          /\ Val(reset.result) = ~reset.failed

\* C13 witness: a reset has returned false because reopening the database
\* failed after the old database, which held tasks, had been deleted.
C13_Witness ==
    /\ reset.pc = "done" /\ reset.result = Some(FALSE)
    /\ idbVersion = 0 /\ dbPromise

\* C14: resetDatabase closes the open connection before it deletes the
\* database, so the delete never waits on a connection of the application's
\* own and the reset returns; when it returns true the store holds no tasks
\* and no categories, the other collections are new, and the settings
\* collection holds exactly the default record.
C14_ResetClosesHandleFirst ==
    /\ reset.pc = "deleting" => openHandles = 0
    /\ (reset.pc = "done" /\ reset.result = Some(TRUE)) =>
          /\ dbTodos = <<>>
          /\ dbCategories = {}
          /\ idbStores = AllStores
          /\ hasSettings /\ dbSettings = DefaultTheme

(* The Record Store's task read functions, called directly.                *)
(***************************************************************************)

\* getTodosByDate: the raw records due on the calendar day of date
getTodosByDate(store, date) ==
    SelectSeq(getAll(store),
              LAMBDA todo : /\ IsSome(todo.dueDate)
                            /\ isSameDay(Val(todo.dueDate), date))

\* getTodosByDateRange: the raw records due within [startDate, endDate]
getTodosByDateRange(store, startDate, endDate) ==
    SelectSeq(getAll(store),
              LAMBDA todo : /\ IsSome(todo.dueDate)
                            /\ Val(todo.dueDate) >= startDate
                            /\ Val(todo.dueDate) <= endDate)

\* getTodosByPriority: the records the priority index holds under the key;
\* a record without a priority has no entry in the index
getTodosByPriority(store, priority) ==
    SelectSeq(getAll(store),
              LAMBDA todo : /\ IsSome(todo.priority)
                            /\ Val(todo.priority) = priority)

\* getTodosByTag: the raw records that have a tag list holding the tag
getTodosByTag(store, tag) ==
    SelectSeq(getAll(store),
              LAMBDA todo : /\ IsSome(todo.tags)
                            /\ includes(Val(todo.tags), tag))

\* getTodosByCompletion: the raw records whose completed flag is the given one
getTodosByCompletion(store, completed) ==
    SelectSeq(getAll(store), LAMBDA todo : todo.completed = completed)

\* the calls of the read functions made on the stored collection, asking
\* for a day and for a completion state
ReadCalls(store, day, completed) ==
    [getTodos |-> getTodos(store),
     getTodosByDate |-> getTodosByDate(store, At(day, 12, 0)),
     getTodosByDateRange |->
         getTodosByDateRange(store, At(day, 0, 0), At(day + 1, 0, 0)),
     getTodosByPriority |-> getTodosByPriority(store, HIGH),
     getTodosByCategory |-> db_getTodosByCategory(store, 1),
     getTodosByTag |-> getTodosByTag(store, tagA),
     getTodosByCompletion |-> getTodosByCompletion(store, completed)]

readFrame ==
    UNCHANGED <<storeVars, containerVars, rtVars, filterVars, calendarVars,
                asyncVars, schemaVars, da, lateVars>>

\* one call of a read function, through to the list it resolves with
readTodos(fn, day, completed) ==
    /\ rd' = [fn |-> fn, day |-> day, completed |-> completed,
              out |-> ReadCalls(dbTodos, day, completed)[fn]]
    /\ readFrame

NextReads ==
    \E fn \in DOMAIN ReadCalls(dbTodos, 1, FALSE), day \in 1..2,
       completed \in BOOLEAN :
        readTodos(fn, day, completed)

InitReads ==
    /\ dbTodos \in RawStoresOf({legacyTodo, currentTodo})
    /\ dbCategories = {1}
    /\ dbSettings = DefaultTheme
    /\ nextId = Len(dbTodos) + 1
    /\ nextUuid = Cardinality(dbCategories)
    /\ now = T0
    /\ InitContainer /\ idleRt /\ idleFilter /\ idleCalendar /\ idleAsync
    /\ InitSchema /\ idleDirect /\ idleLate

SpecReads == InitReads /\ [][NextReads]_vars

\* the four optional properties the read repair fills in
isNormalized(todo) ==
    /\ IsSome(todo.tags)
    /\ IsSome(todo.subtasks)
    /\ IsSome(todo.notes)
    /\ IsSome(todo.description)

(* C15: every task a task read function returns has a tag list, a subtask  *)
(* list and a note list, and a description, whichever read function it was. *)
C15_EveryReadNormalizes ==
    rd.fn # "none" =>
        \A i \in 1..Len(rd.out) : isNormalized(rd.out[i])

-----------------------------------------------------------------------------
(* Record Store operations in flight in the asynchronous container.        *)
(***************************************************************************)

\* the reads of loadData's Promise.all that have not resolved yet
pendingReads ==
    {<<l.n, f>> : l \in loads, f \in {"todos", "categories", "settings"}}
    \ ({<<l.n, "todos">> : l \in {x \in loads : IsSome(x.todos)}}
       \cup {<<l.n, "categories">> : l \in {x \in loads : IsSome(x.categories)}}
       \cup {<<l.n, "settings">> : l \in {x \in loads : IsSome(x.settings)}})

\* the loads awaiting getStatsRange after their Promise.all
pendingStatsReads == {l \in loads : readsDone(l)}

\* the Record Store operations issued and not yet completed: the awaited db
\* call of every running mutator and the reads of every running loadData
storeOpsInFlight ==
    Cardinality(calls) + Cardinality(pendingReads)
    + Cardinality(pendingStatsReads)

(* C17: at every moment at most one Record Store operation, the reads of   *)
(* loadData included, has been issued and not yet completed.               *)
C17_AtMostOneStoreOperation == storeOpsInFlight <= 1

\* nothing is running, and nothing has failed: every mutator called was a
\* reloading one whose db call succeeded, and every loadData started, by a
\* mutator or by App, has set what it read
quiescentAfterSuccess ==
    /\ calls = {} /\ loads = {}
    /\ issued.loads = issued.calls + issued.appLoads
    /\ issued.sets = issued.loads
    /\ issued.sets > 0

\* the container shows what the Record Store holds
cacheIsFaithful ==
    /\ todos = getTodos(dbTodos)
    /\ categories = getCategories(dbCategories)
    /\ settings = Some(dbSettings)

(* C19: once every mutator and every loadData has completed, the todos,    *)
(* categories and settings of the container equal the contents of the      *)
(* Record Store; a reload that read older data has not overwritten a newer *)
(* one.                                                                     *)
C19_CacheFaithfulWhenQuiescent == quiescentAfterSuccess => cacheIsFaithful

-----------------------------------------------------------------------------
(* deleteAllTodos: one readwrite transaction on the task collection.       *)
(***************************************************************************)

\* a key enumeration that misses the first key
keysToDelete_skipsFirst(store) ==
    LET keys == sortedKeys(DOMAIN store)
    IN  IF keys = <<>> THEN <<>> ELSE Tail(keys)

\* store.getAllKeys(): every key of the task collection, in key order
keysToDelete(store) == sortedKeys(DOMAIN store)

\* the transaction is open between its creation and tx.done or its abort
txOpen == da.pc \in {"keys", "deleting"}

deleteAllFrame ==
    UNCHANGED <<dbCategories, nextId, nextUuid, now, containerVars,
                rtVars, filterVars, calendarVars, asyncVars, schemaVars, rd,
                lateVars>>

\* initDB resolves and db.transaction(TODO_STORE, "readwrite") starts
deleteAllStart ==
    /\ da.pc = "idle"
    /\ da' = [pc |-> "keys", keys |-> <<>>, before |-> dbTodos,
              result |-> None]
    /\ UNCHANGED dbTodos

\* initDB rejects: the catch block returns false
deleteAllOpenFails ==
    /\ da.pc = "idle"
    /\ da' = [da EXCEPT !.pc = "done", !.result = Some(FALSE)]
    /\ UNCHANGED dbTodos

\* await store.getAllKeys()
deleteAllGetKeys ==
    /\ da.pc = "keys"
    /\ da' = [da EXCEPT !.pc = "deleting", !.keys = keysToDelete(dbTodos)]
    /\ UNCHANGED dbTodos

\* one turn of the loop: await store.delete(key)
deleteAllDeleteKey ==
    /\ da.pc = "deleting"
    /\ da.keys # <<>>
    /\ dbTodos' = db_deleteTodo(dbTodos, Head(da.keys))
    /\ da' = [da EXCEPT !.keys = Tail(@)]

\* await tx.done after the loop: the transaction commits, return true
deleteAllCommit ==
    /\ da.pc = "deleting"
    /\ da.keys = <<>>
    /\ da' = [da EXCEPT !.pc = "done", !.result = Some(TRUE)]
    /\ UNCHANGED dbTodos

\* a request or the commit fails: the transaction aborts, which undoes its
\* deletes, and the catch block returns false
deleteAllAborts ==
    /\ txOpen
    /\ dbTodos' = da.before
    /\ da' = [da EXCEPT !.pc = "done", !.keys = <<>>, !.result = Some(FALSE)]

\* another part of the application adds a task; a readwrite transaction on
\* the task collection waits for the one that is open
otherAddTodo ==
    /\ ~txOpen
    /\ nextId <= MaxTodos + 1
    /\ dbTodos' = db_addTodo(dbTodos, submittedTodo, nextId, now)
    /\ nextId' = nextId + 1
    /\ UNCHANGED <<dbCategories, nextUuid, now, containerVars, rtVars,
                   filterVars, calendarVars, asyncVars, schemaVars,
                   directVars, lateVars>>

\* another part of the application adds a category, at any time
otherAddCategory ==
    /\ nextUuid < MaxCategories
    /\ dbCategories' = dbCategories \cup {nextUuid + 1}
    /\ nextUuid' = nextUuid + 1
    /\ UNCHANGED <<dbTodos, nextId, now, containerVars, rtVars,
                   filterVars, calendarVars, asyncVars, schemaVars,
                   directVars, lateVars>>

NextDeleteAll ==
    \/ deleteAllStart /\ deleteAllFrame
    \/ deleteAllOpenFails /\ deleteAllFrame
    \/ deleteAllGetKeys /\ deleteAllFrame
    \/ deleteAllDeleteKey /\ deleteAllFrame
    \/ deleteAllCommit /\ deleteAllFrame
    \/ deleteAllAborts /\ deleteAllFrame
    \/ otherAddTodo
    \/ otherAddCategory

SpecDeleteAll == InitReset /\ [][NextDeleteAll]_vars

\* what deleteAllTodos has returned: the call is over with a boolean
deleteAllReturned == da.pc = "done" /\ IsSome(da.result)

\* no task that existed when the call started is still stored
startedTasksGone == \A k \in DOMAIN da.before : k \notin DOMAIN dbTodos

(* C16: deleteAllTodos ends by returning a boolean, never by throwing;     *)
(* once it has returned true no task that existed when it started is in    *)
(* the task collection; and none of its steps changes the category or      *)
(* settings collection or the set of collections and indexes.              *)
C16_DeleteAllTodosContract ==
    [][/\ da' # da =>
            UNCHANGED <<dbCategories, dbSettings, hasSettings, idbStores,
                        idbIndexes>>
       /\ da'.pc = "done" => IsSome(da'.result)
       /\ da'.result = Some(TRUE) => startedTasksGone']_vars

C16_Witness ==
    /\ deleteAllReturned
    /\ da.result = Some(TRUE)
    /\ Len(da.before) = 2
    /\ dbTodos = <<>>
    /\ dbCategories # {}

-----------------------------------------------------------------------------
(* Store operations after an open attempt: every db function starts with   *)
(* await initDB(), which returns the cached promise when there is one.     *)
(***************************************************************************)

MaxOps == 3

reopenFrame ==
    UNCHANGED <<storeVars, containerVars, rtVars, filterVars, calendarVars,
                settings, isLoading, refreshTrigger, calls, loads, issued,
                reset, directVars, dbStats, catParent, tagList, track, rmw,
                notice>>

\* a store operation calls initDB and dbPromise is null: openDB is called
storeOpOpens ==
    /\ storeOp.issued < MaxOps
    /\ initDB
    /\ storeOp' = [issued |-> storeOp.issued + 1,
                   attempts |-> storeOp.attempts + 1,
                   outcome |-> "pending"]

\* what awaiting the cached promise gives once the open attempt is over
cachedOutcome == IF upgrade.pc = "failed" THEN "rejected" ELSE "resolved"

\* a store operation calls initDB and dbPromise is set: the cached promise is
\* returned, whether it resolved or rejected
storeOpUsesCache ==
    /\ storeOp.issued < MaxOps
    /\ dbPromise /\ upgrade.pc \in {"failed", "open"}
    /\ storeOp' = [storeOp EXCEPT !.issued = @ + 1, !.outcome = cachedOutcome]
    /\ UNCHANGED schemaVars
    /\ UNCHANGED dbSettings

NextReopen ==
    \/ storeOpOpens /\ reopenFrame
    \/ storeOpUsesCache /\ reopenFrame
    \/ upgradeStep /\ schemaFrame
    \/ upgradeFails /\ schemaFrame
    \/ openSucceeds /\ schemaFrame

SpecReopen == InitOldDatabase /\ [][NextReopen]_vars

(* C21: a store operation issued after an open attempt has failed starts a *)
(* new open attempt; it does not receive the failure of the earlier one.   *)
C21_OperationAfterFailureReopens ==
    [][(upgrade.pc = "failed" /\ storeOp'.issued = storeOp.issued + 1) =>
          /\ storeOp'.attempts = storeOp.attempts + 1
          /\ storeOp'.outcome # "rejected"]_vars

-----------------------------------------------------------------------------
(* updateDailyStats.  Dates are minutes of local time; the browser's time  *)
(* zone is tz minutes ahead of UTC, and toISOString prints the UTC date.   *)
(***************************************************************************)

\* d.toISOString().split("T")[0]: the calendar day of d in UTC
isoDate(d, tz) == (d - tz) \div MinutesPerDay

\* today.setHours(0, 0, 0, 0) then toISOString: the UTC day of local midnight
todayStr(t, tz) == isoDate(startOfDay(t), tz)

\* getAllTags: every tag of every stored task, once
getAllTags(store) ==
    UNION {{Val(store[k].tags)[i] : i \in 1..Len(Val(store[k].tags))} :
               k \in {j \in DOMAIN store : IsSome(store[j].tags)}}

\* the tasks the forEach counts as completed on the day of the key
completedOn(store, key, tz) ==
    {k \in DOMAIN store : /\ IsSome(store[k].completedAt)
                          /\ isoDate(Val(store[k].completedAt), tz) = key}

\* the tasks the forEach counts as due on the day of the key
dueOnKey(store, key, tz) ==
    {k \in DOMAIN store : /\ IsSome(store[k].dueDate)
                          /\ isoDate(Val(store[k].dueDate), tz) = key}

\* a completed/total pair over a set of counted tasks
statPair(store, ids) ==
    [completed |-> Cardinality({k \in ids : store[k].completed}),
     total |-> Cardinality(ids)]

\* the record updateDailyStats builds
statsData(store, cats, t, tz) ==
    LET key == todayStr(t, tz)
        due == dueOnKey(store, key, tz)
    IN  [id |-> key,
         date |-> startOfDay(t),
         completedCount |-> Cardinality(completedOn(store, key, tz)),
         totalCount |-> Cardinality(due),
         categoryStats |->
             [c \in cats |->
                 statPair(store, {k \in due : store[k].categoryId = Some(c)})],
         tagStats |->
             [g \in getAllTags(store) |->
                 statPair(store,
                          {k \in due : /\ IsSome(store[k].tags)
                                       /\ includes(Val(store[k].tags), g)})]]

\* db.put(STATS_STORE, statsData): insert or overwrite the record of the key
putStats(records, rec) ==
    [k \in DOMAIN records \cup {rec.id} |->
        IF k = rec.id THEN rec ELSE records[k]]

updateDailyStats ==
    /\ dbStats' = [dbStats EXCEPT
                      !.records = putStats(@, statsData(dbTodos, dbCategories,
                                                        now, dbStats.tz))]
    /\ UNCHANGED <<storeVars, containerVars, rtVars, filterVars, calendarVars,
                   asyncVars, schemaVars, directVars, storeOp, catParent,
                   tagList, track, rmw, notice>>

\* tasks due and completed around the local day 2
statsTask(due, done) ==
    [text |-> <<"a">>, description |-> Some(<<>>), completed |-> IsSome(done),
     createdAt |-> Some(At(1, 9, 0)), dueDate |-> due,
     tags |-> Some(<<tagA>>), priority |-> Some(MEDIUM),
     subtasks |-> Some(<<>>), notes |-> Some(<<>>), categoryId |-> Some(1),
     completedAt |-> done]

StatsPool ==
    {statsTask(Some(At(2, 9, 0)), Some(At(2, 8, 0))),
     statsTask(Some(At(2, 23, 0)), Some(At(2, 10, 0))),
     statsTask(Some(At(1, 9, 0)), None),
     statsTask(None, Some(At(1, 23, 0)))}

\* the offsets from UTC of the browsers the application runs in
TimeZones == [utc |-> 0, seoul |-> 9 * 60, newYork |-> 0 - 5 * 60]

InitStats ==
    /\ dbTodos \in RawStoresOf(StatsPool)
    /\ dbCategories = {1}
    /\ dbSettings = DefaultTheme
    /\ nextId = Len(dbTodos) + 1
    /\ nextUuid = Cardinality(dbCategories)
    /\ now \in {At(2, 7, 0), At(2, 22, 0)}
    /\ InitContainer /\ idleRt /\ idleFilter /\ idleCalendar /\ idleAsync
    /\ InitSchema /\ idleDirect
    /\ storeOp = NoStoreOp /\ catParent = <<>> /\ tagList = NoTagInput
    /\ track = NoTracking /\ rmw = NoRmw /\ notice = NoNotice
    /\ dbStats \in [tz : {TimeZones[z] : z \in DOMAIN TimeZones},
                    records : {<<>>}]

SpecStats == InitStats /\ [][updateDailyStats]_vars

\* the tasks whose date falls on the local calendar day of t
fallsToday(store, field, t) ==
    {k \in DOMAIN store : /\ IsSome(store[k][field])
                          /\ isSameDay(Val(store[k][field]), t)}

(* C22: the statistics collection holds at most one record after the call, *)
(* keyed by today's date; its completedCount is the number of tasks        *)
(* completed today, its totalCount the number of tasks due today, and its  *)
(* per-category and per-tag pairs count the tasks due today.               *)
C22_DailyStatsCountToday ==
    /\ Cardinality(DOMAIN dbStats.records) <= 1
    /\ \A key \in DOMAIN dbStats.records :
          LET rec == dbStats.records[key]
              due == fallsToday(dbTodos, "dueDate", now)
          IN  /\ key = calendarDay(now)
              /\ rec.completedCount =
                     Cardinality(fallsToday(dbTodos, "completedAt", now))
              /\ rec.totalCount = Cardinality(due)
              /\ \A c \in DOMAIN rec.categoryStats :
                     rec.categoryStats[c] =
                         statPair(dbTodos,
                                  {k \in due : dbTodos[k].categoryId = Some(c)})
              /\ \A g \in DOMAIN rec.tagStats :
                     rec.tagStats[g] =
                         statPair(dbTodos,
                                  {k \in due : includes(Val(dbTodos[k].tags), g)})

-----------------------------------------------------------------------------
(* The category hierarchy: CategoryView's dialogs over addCategory,        *)
(* updateCategory and deleteCategory.                                      *)
(***************************************************************************)

MaxTreeCategories == 4

treeFrame ==
    UNCHANGED <<dbTodos, nextId, now, containerVars, rtVars, filterVars,
                calendarVars, asyncVars, schemaVars, directVars, storeOp,
                dbStats, tagList, track, rmw, notice>>

\* handleCreateCategory: the new category has a name and a colour; the
\* parent select of the dialog stores its value nowhere
handleCreateCategory ==
    /\ nextUuid < MaxTreeCategories
    /\ catParent' = [c \in DOMAIN catParent \cup {nextUuid + 1} |->
                        IF c = nextUuid + 1 THEN None ELSE catParent[c]]
    /\ dbCategories' = dbCategories \cup {nextUuid + 1}
    /\ nextUuid' = nextUuid + 1

\* the options of the parent select in the edit dialog: no parent, or any
\* category other than the edited one
parentOptions(cats, edited) == {None} \cup {Some(c) : c \in cats \ {edited}}

\* handleUpdateCategory after a choice in the parent select: db.put
handleUpdateCategory(edited, parentId) ==
    /\ edited \in DOMAIN catParent
    /\ parentId \in parentOptions(DOMAIN catParent, edited)
    /\ catParent' = [catParent EXCEPT ![edited] = parentId]
    /\ UNCHANGED <<dbCategories, nextUuid>>

\* handleDeleteCategory: db.delete of the category record; the cascade of
\* deleteCategory visits tasks, not categories
handleDeleteCategory(id) ==
    /\ id \in DOMAIN catParent
    /\ catParent' = [c \in DOMAIN catParent \ {id} |-> catParent[c]]
    /\ dbCategories' = deleteCategory_categories(dbCategories, id)
    /\ UNCHANGED nextUuid

NextCategoryTree ==
    \/ handleCreateCategory /\ treeFrame
    \/ \E edited \in DOMAIN catParent :
          \E parentId \in parentOptions(DOMAIN catParent, edited) :
              handleUpdateCategory(edited, parentId) /\ treeFrame
    \/ \E id \in DOMAIN catParent : handleDeleteCategory(id) /\ treeFrame

SpecCategoryTree == Init /\ [][NextCategoryTree]_vars

\* the categories reached from c by following parentId at most n times
RECURSIVE ancestors(_, _)
ancestors(c, n) ==
    IF n = 0 \/ c \notin DOMAIN catParent \/ catParent[c] = None THEN {}
    ELSE {Val(catParent[c])} \cup ancestors(Val(catParent[c]), n - 1)

(* C23: every category's parentId is unset or the id of an existing        *)
(* category, and following parentId from a category never returns to it.   *)
C23_CategoriesFormForest ==
    \A c \in DOMAIN catParent :
        /\ catParent[c] = None \/ Val(catParent[c]) \in DOMAIN catParent
        /\ c \notin ancestors(c, MaxTreeCategories)

-----------------------------------------------------------------------------
(* The TagInput component.                                                 *)
(***************************************************************************)

\* the maxTags prop the form passes, and the longest text typed or pasted
maxTags == 3
MaxPaste == 3

\* the characters typed and pasted
TagChars == {"a", "b", " "}
PasteChars == TagChars \cup {","}

TextsOver(chars, n) == UNION {[1..k -> chars] : k \in 0..n}

\* pasteData.split(','): the pieces between the commas, empty ones included
RECURSIVE split(_)
split(str) ==
    IF \A i \in 1..Len(str) : str[i] # "," THEN <<str>>
    ELSE LET c == CHOOSE i \in 1..Len(str) :
                      /\ str[i] = ","
                      /\ \A j \in 1..(i - 1) : str[j] # ","
         IN  <<SubSeq(str, 1, c - 1)>> \o split(SubSeq(str, c + 1, Len(str)))

\* [...].slice(0, n)
slice(list, n) == SubSeq(list, 1, IF Len(list) < n THEN Len(list) ELSE n)

tagFrame ==
    UNCHANGED <<storeVars, containerVars, rtVars, filterVars, calendarVars,
                asyncVars, schemaVars, directVars, storeOp, dbStats,
                catParent, track, rmw, notice>>

\* onTagsChange(newTags): the parent stores the list and passes it back
onTagsChange(newTags) == tagList' = [tags |-> newTags, emitted |-> newTags]

\* handleAddTag, from Enter or blur, when its guard lets the tag through
handleAddTag(tag) ==
    LET trimmedTag == trim(tag)
    IN  /\ ~(trimmedTag = <<>> \/ includes(tagList.tags, trimmedTag)
             \/ Len(tagList.tags) >= maxTags)
        /\ onTagsChange(Append(tagList.tags, trimmedTag))

\* handleRemoveTag: splice(index, 1), index counted from 0
handleRemoveTag(index) ==
    /\ index \in 0..(Len(tagList.tags) - 1)
    /\ onTagsChange(SubSeq(tagList.tags, 1, index)
                    \o SubSeq(tagList.tags, index + 2, Len(tagList.tags)))

\* the pieces of the paste that pass the filter of handlePaste
pastedTags(tags, pasteData) ==
    LET pieces == split(pasteData)
        trimmed == [i \in 1..Len(pieces) |-> trim(pieces[i])]
    IN  SelectSeq(trimmed, LAMBDA tag : tag # <<>> /\ ~includes(tags, tag))

handlePaste(pasteData) ==
    /\ pasteData # <<>>
    /\ Len(pastedTags(tagList.tags, pasteData)) > 0
    /\ onTagsChange(slice(tagList.tags \o pastedTags(tagList.tags, pasteData),
                          maxTags))

NextTagInput ==
    \/ \E tag \in TextsOver(TagChars, MaxPaste - 1) : handleAddTag(tag) /\ tagFrame
    \/ \E index \in 0..(maxTags - 1) : handleRemoveTag(index) /\ tagFrame
    \/ \E pasteData \in TextsOver(PasteChars, MaxPaste) :
          handlePaste(pasteData) /\ tagFrame

SpecTagInput == Init /\ [][NextTagInput]_vars

(* C24: the list handed to onTagsChange holds no tag twice and no empty    *)
(* tag.                                                                     *)
C24_TagListHasNoDuplicate ==
    \A i \in 1..Len(tagList.emitted) :
        /\ tagList.emitted[i] # <<>>
        /\ \A j \in 1..Len(tagList.emitted) :
               tagList.emitted[i] = tagList.emitted[j] => i = j

-----------------------------------------------------------------------------
(* Time tracking of one stored task: startTimeTracking, stopTimeTracking.  *)
(***************************************************************************)

MaxTrackTicks == 4
MaxTrackCalls == 4

trackFrame ==
    UNCHANGED <<dbTodos, dbCategories, nextId, nextUuid, containerVars, rtVars,
                filterVars, calendarVars, asyncVars, schemaVars, directVars,
                storeOp, dbStats, catParent, tagList, rmw, notice>>

\* the clock moves on
trackTick ==
    /\ now < T0 + MaxTrackTicks
    /\ now' = now + 1
    /\ UNCHANGED track

\* startTimeTracking: started is set to the time of the call and stopped is
\* cleared; totalTime is carried over by the spread
startTimeTracking ==
    /\ track.calls < MaxTrackCalls
    /\ track' = [track EXCEPT !.started = Some(now), !.stopped = None,
                              !.inProgress = Some(now), !.calls = @ + 1]
    /\ UNCHANGED now

\* the time stopTimeTracking adds to totalTime
elapsed(t) == now - Val(t.started)

\* stopTimeTracking: when the task has a started time the elapsed time since
\* then is added and stopped is set; started is kept
stopTimeTracking ==
    /\ track.calls < MaxTrackCalls
    /\ IF IsSome(track.started)
       THEN track' = [track EXCEPT
                         !.stopped = Some(now),
                         !.totalTime = @ + elapsed(track),
                         !.inProgress = None,
                         !.tracked = IF IsSome(track.inProgress)
                                     THEN @ + (now - Val(track.inProgress))
                                     ELSE @,
                         !.calls = @ + 1]
       ELSE track' = [track EXCEPT !.calls = @ + 1]
    /\ UNCHANGED now

NextTracking ==
    \/ trackTick /\ trackFrame
    \/ startTimeTracking /\ trackFrame
    \/ stopTimeTracking /\ trackFrame

SpecTracking == Init /\ [][NextTracking]_vars

(* C25: totalTime equals the sum of the elapsed times of the tracked       *)
(* intervals, each start paired with the next stop; a stop with no         *)
(* tracking in progress adds nothing.                                      *)
C25_TotalTimeIsSumOfIntervals == track.totalTime = track.tracked

-----------------------------------------------------------------------------
(* The task mutators of the Record Store that read a task with db.get and  *)
(* write it back with db.put, each in a transaction of its own.            *)
(***************************************************************************)

TaskMutators == {"toggleTodoCompletion", "addSubtask", "addNote"}

\* the subtask and the note the user adds
newSubtask == [text |-> <<"s">>, completed |-> FALSE]
newNote == [content |-> <<"n">>, createdAt |-> now]

\* a toggle that sets completed and leaves completedAt as it was
modified_keepsCompletedAt(name, todo) ==
    CASE name = "toggleTodoCompletion" -> [todo EXCEPT !.completed = TRUE]
      [] name = "addSubtask" ->
             [todo EXCEPT !.subtasks =
                              Some(Append(Val(orDefault(@, <<>>)), newSubtask))]
      [] name = "addNote" ->
             [todo EXCEPT !.notes =
                              Some(Append(Val(orDefault(@, <<>>)), newNote))]

\* what each mutator changes in the record it has read
modified(name, todo) ==
    CASE name = "toggleTodoCompletion" ->
             [todo EXCEPT !.completed = TRUE, !.completedAt = Some(now)]
      [] name = "addSubtask" ->
             [todo EXCEPT !.subtasks =
                              Some(Append(Val(orDefault(@, <<>>)), newSubtask))]
      [] name = "addNote" ->
             [todo EXCEPT !.notes = Some(Append(Val(orDefault(@, <<>>)), newNote))]

rmwFrame ==
    UNCHANGED <<dbCategories, nextId, nextUuid, now, containerVars, rtVars,
                filterVars, calendarVars, asyncVars, schemaVars, directVars,
                storeOp, dbStats, catParent, tagList, track, notice>>

called(name) ==
    name \in rmw.done \/ \E m \in rmw.inflight : m.name = name

\* a mutator is called on the task: it awaits initDB and then db.get
mutatorCalled(name, id) ==
    /\ ~called(name)
    /\ rmw' = [rmw EXCEPT !.inflight =
                              @ \cup {[name |-> name, id |-> id, todo |-> None]}]
    /\ UNCHANGED dbTodos

\* db.get resolves: the mutator holds a copy of the stored record
mutatorReads(m) ==
    /\ m \in rmw.inflight /\ m.todo = None
    /\ m.id \in DOMAIN dbTodos
    /\ rmw' = [rmw EXCEPT !.inflight =
                   (@ \ {m}) \cup {[m EXCEPT !.todo = Some(dbTodos[m.id])]}]
    /\ UNCHANGED dbTodos

\* db.put resolves: the changed copy replaces the stored record
mutatorWrites(m) ==
    /\ m \in rmw.inflight /\ IsSome(m.todo)
    /\ dbTodos' = put(dbTodos, modified(m.name, Val(m.todo)))
    /\ rmw' = [rmw EXCEPT !.inflight = @ \ {m}, !.done = @ \cup {m.name}]

NextTaskMutators ==
    \/ \E name \in TaskMutators : mutatorCalled(name, 1) /\ rmwFrame
    \/ \E m \in rmw.inflight : mutatorReads(m) /\ rmwFrame
    \/ \E m \in rmw.inflight : mutatorWrites(m) /\ rmwFrame

InitTaskMutators ==
    /\ dbTodos \in {st \in RawStoresOf({legacyTodo, currentTodo}) : Len(st) = 1}
    /\ dbCategories = {1}
    /\ dbSettings = DefaultTheme
    /\ nextId = Len(dbTodos) + 1
    /\ nextUuid = Cardinality(dbCategories)
    /\ now = T0
    /\ InitContainer /\ idleRt /\ idleFilter /\ idleCalendar /\ idleAsync
    /\ InitSchema /\ idleDirect /\ idleLate

SpecTaskMutators == InitTaskMutators /\ [][NextTaskMutators]_vars

\* the stored task shows what the mutator did
reflects(name, todo) ==
    CASE name = "toggleTodoCompletion" -> todo.completed
      [] name = "addSubtask" -> 
             includes(Val(orDefault(todo.subtasks, <<>>)), newSubtask)
      [] name = "addNote" -> 
             includes(Val(orDefault(todo.notes, <<>>)), newNote)

(* C26: once the task mutators that overlapped have completed, the stored  *)
(* task reflects the effect of each of them.                               *)
C26_NoLostUpdate ==
    rmw.inflight = {} =>
        \A name \in rmw.done : reflects(name, dbTodos[1])

-----------------------------------------------------------------------------
(* deleteCategory step by step, the edit form, and deleteTodo beside them. *)
(***************************************************************************)

\* deleteCategory: db.delete(CATEGORY_STORE, id) resolves
cascadeDeletesCategory(id) ==
    /\ rmw.cascade.pc = "idle"
    /\ id \in dbCategories
    /\ dbCategories' = deleteCategory_categories(dbCategories, id)
    /\ rmw' = [rmw EXCEPT !.cascade = [pc |-> "reading", id |-> id,
                                       list |-> <<>>]]
    /\ UNCHANGED dbTodos

\* deleteCategory: getTodosByCategory(id) resolves with a list of copies
cascadeReads ==
    /\ rmw.cascade.pc = "reading"
    /\ rmw' = [rmw EXCEPT
                  !.cascade.pc = "updating",
                  !.cascade.list = db_getTodosByCategory(dbTodos, rmw.cascade.id)]
    /\ UNCHANGED <<dbTodos, dbCategories>>

\* deleteCategory: one turn of the loop, updateTodo(todo) resolves
cascadeUpdates ==
    /\ rmw.cascade.pc = "updating"
    /\ rmw.cascade.list # <<>>
    /\ dbTodos' = db_updateTodo(dbTodos, [Head(rmw.cascade.list) EXCEPT
                                             !.categoryId = None])
    /\ rmw' = [rmw EXCEPT !.cascade.list = Tail(@)]
    /\ UNCHANGED dbCategories

\* deleteCategory resolves after the loop
cascadeEnds ==
    /\ rmw.cascade.pc = "updating"
    /\ rmw.cascade.list = <<>>
    /\ rmw' = [rmw EXCEPT !.cascade.pc = "done"]
    /\ UNCHANGED <<dbTodos, dbCategories>>

\* a request after the delete of the category rejects: deleteCategory
\* rejects and the container's catch block logs the error
cascadeFails ==
    /\ rmw.cascade.pc \in {"reading", "updating"}
    /\ rmw' = [rmw EXCEPT !.cascade.pc = "failed", !.cascade.list = <<>>]
    /\ UNCHANGED <<dbTodos, dbCategories>>

\* the edit form opens on a task of the container: initialTodo
formOpens(id) ==
    /\ rmw.form = None
    /\ id \in DOMAIN dbTodos
    /\ rmw' = [rmw EXCEPT !.form = Some(normalize(dbTodos[id]))]
    /\ UNCHANGED <<dbTodos, dbCategories>>

\* TodoForm.handleSubmit, update branch: the task the form was opened with,
\* with the fields of the form, goes to updateTodo
formSubmitsUpdate ==
    /\ IsSome(rmw.form)
    /\ dbTodos' = db_updateTodo(dbTodos, [Val(rmw.form) EXCEPT
                                             !.text = <<"b">>,
                                             !.description = None])
    /\ rmw' = [rmw EXCEPT !.form = None]
    /\ UNCHANGED dbCategories

\* deleteTodo(id) of the Record Store resolves
taskDeleted(id) ==
    /\ id \in DOMAIN dbTodos
    /\ dbTodos' = db_deleteTodo(dbTodos, id)
    /\ rmw' = [rmw EXCEPT !.deleted = @ \cup {id}]
    /\ UNCHANGED dbCategories

\* toggleTodoCompletion(id, completed) of the Record Store resolves
taskToggled(id, completed) ==
    /\ dbTodos' = db_toggleTodoCompletion(dbTodos, id, completed, now)
    /\ UNCHANGED <<rmw, dbCategories>>

cascadeFrame ==
    UNCHANGED <<nextId, nextUuid, now, containerVars, rtVars, filterVars,
                calendarVars, asyncVars, schemaVars, directVars, storeOp,
                dbStats, catParent, tagList, track, notice>>

NextCascade ==
    \/ \E id \in dbCategories : cascadeDeletesCategory(id) /\ cascadeFrame
    \/ cascadeReads /\ cascadeFrame
    \/ cascadeUpdates /\ cascadeFrame
    \/ cascadeEnds /\ cascadeFrame
    \/ cascadeFails /\ cascadeFrame
    \/ \E id \in DOMAIN dbTodos : formOpens(id) /\ cascadeFrame
    \/ formSubmitsUpdate /\ cascadeFrame
    \/ \E id \in DOMAIN dbTodos : taskDeleted(id) /\ cascadeFrame
    \/ \E id \in 1..(nextId - 1), completed \in BOOLEAN :
          taskToggled(id, completed) /\ cascadeFrame

InitCascade ==
    /\ dbTodos \in RawStoresOf({legacyTodo, currentTodo})
    /\ dbCategories = {1}
    /\ dbSettings = DefaultTheme
    /\ nextId = Len(dbTodos) + 1
    /\ nextUuid = Cardinality(dbCategories)
    /\ now = T0
    /\ InitContainer /\ idleRt /\ idleFilter /\ idleCalendar /\ idleAsync
    /\ InitSchema /\ idleDirect /\ idleLate

SpecCascade == InitCascade /\ [][NextCascade]_vars

\* no deleteCategory is between its first and its last store request
cascadeOver == rmw.cascade.pc \notin {"reading", "updating"}

(* C27: whenever no store action is under way, every stored task's         *)
(* categoryId is unset or the id of a category that exists.                *)
C27_TaskCategoriesExist ==
    cascadeOver =>
        \A k \in DOMAIN dbTodos :
            \/ dbTodos[k].categoryId = None
            \/ Val(dbTodos[k].categoryId) \in dbCategories

(* C29: a task that was deleted is never stored again: no operation aimed  *)
(* at an id without a stored task creates one.                             *)
C29_DeletedTaskNeverReappears ==
    \A id \in rmw.deleted : id \notin DOMAIN dbTodos

-----------------------------------------------------------------------------
(* The actions of the State Container that write tasks, from an empty      *)
(* store: form add, form edit, the task mutators, create from template.    *)
(***************************************************************************)

\* how many tasks the writers create
MaxWriterTasks == 1

\* TodoForm.handleSubmit, add branch
formSubmitsNew ==
    /\ nextId <= MaxWriterTasks
    /\ dbTodos' = db_addTodo(dbTodos, submittedTodo, nextId, now)
    /\ nextId' = nextId + 1
    /\ UNCHANGED rmw

\* the todoData TemplatesView.handleCreateTemplate stores in a template
templateTodoData ==
    [text |-> <<>>, description |-> Some(<<>>), completed |-> FALSE,
     createdAt |-> None, dueDate |-> None, tags |-> Some(<<>>),
     priority |-> Some(MEDIUM), subtasks |-> Some(<<>>), notes |-> Some(<<>>),
     categoryId |-> None, completedAt |-> None]

\* createTodoFromTemplate: the todoData with createdAt set goes to addTodo
createTodoFromTemplate ==
    /\ nextId <= MaxWriterTasks
    /\ dbTodos' = db_addTodo(dbTodos,
                             [templateTodoData EXCEPT !.createdAt = Some(now)],
                             nextId, now)
    /\ nextId' = nextId + 1
    /\ UNCHANGED rmw

writersFrame ==
    UNCHANGED <<dbCategories, nextUuid, now, containerVars, rtVars, filterVars,
                calendarVars, asyncVars, schemaVars, directVars, storeOp,
                dbStats, catParent, tagList, track, notice>>

NextWriters ==
    \/ formSubmitsNew /\ writersFrame
    \/ createTodoFromTemplate /\ writersFrame
    \/ \E name \in TaskMutators :
          mutatorCalled(name, 1) /\ UNCHANGED nextId /\ writersFrame
    \/ \E m \in rmw.inflight :
          mutatorReads(m) /\ UNCHANGED nextId /\ writersFrame
    \/ \E m \in rmw.inflight :
          mutatorWrites(m) /\ UNCHANGED nextId /\ writersFrame
    \/ \E id \in 1..(nextId - 1), completed \in BOOLEAN :
          taskToggled(id, completed) /\ UNCHANGED nextId /\ writersFrame
    \/ \E id \in DOMAIN dbTodos :
          formOpens(id) /\ UNCHANGED nextId /\ writersFrame
    \/ formSubmitsUpdate /\ UNCHANGED nextId /\ writersFrame
    \/ \E id \in DOMAIN dbTodos :
          taskDeleted(id) /\ UNCHANGED nextId /\ writersFrame

SpecWriters == Init /\ [][NextWriters]_vars

(* C28: every stored task has completedAt set if and only if completed is  *)
(* true.                                                                    *)
C28_CompletedAtIffCompleted ==
    \A k \in DOMAIN dbTodos :
        IsSome(dbTodos[k].completedAt) <=> dbTodos[k].completed

\* C28 witness: the toggle and addSubtask overlapped on task 1 and are both
\* over, the edit form has rewritten a task, and task 1 is completed.
C28_Witness ==
    /\ {"toggleTodoCompletion", "addSubtask"} \subseteq rmw.done
    /\ 1 \in DOMAIN dbTodos
    /\ dbTodos[1].completed /\ IsSome(dbTodos[1].completedAt)
    /\ dbTodos[1].text = <<"b">>

-----------------------------------------------------------------------------
(* TodoList.handleDeleteTodo and the notification it shows.                *)
(***************************************************************************)

\* store.deleteTodo: how its promise settles, given whether db.deleteTodo
\* rejected; the catch block logs the error and the function returns
store_deleteTodo(rejected) ==
    IF rejected THEN "resolved" ELSE "resolved"

\* the toast handleDeleteTodo shows after awaiting store.deleteTodo
toastAfter(settled) ==
    IF settled = "resolved" THEN "success" ELSE "failure"

\* handleDeleteTodo(id) for a task of the list; the Record Store's delete
\* either is carried out or rejects
handleDeleteTodo(id, rejected) ==
    /\ IF rejected
          THEN UNCHANGED <<dbTodos, todos, categories>>
          ELSE /\ dbTodos' = db_deleteTodo(dbTodos, id)
               /\ loadData(dbTodos', dbCategories)
    /\ last' = Called("deleteTodo", id, FALSE, 0, 0)
    /\ notice' = [shown |-> toastAfter(store_deleteTodo(rejected)),
                  deleted |-> ~rejected /\ id \notin DOMAIN dbTodos',
                  failed |-> rejected]
    /\ UNCHANGED <<dbCategories, nextId, nextUuid, now>>
    /\ filtersUnchanged
    /\ UNCHANGED <<rtVars, filterVars, calendarVars, asyncVars, schemaVars,
                   directVars, storeOp, dbStats, catParent, tagList, track,
                   rmw>>

NextNotice ==
    \/ \E x \in FormPayloads : addTodo(x)
    \/ \E i \in 1..Len(todos) :
          toggleCompletion(todos[i].id, ~todos[i].completed)
    \/ \E i \in 1..Len(todos), rejected \in BOOLEAN :
          handleDeleteTodo(todos[i].id, rejected)

SpecNotice == Init /\ [][NextNotice]_vars

(* C30: handleDeleteTodo shows the success notification only when the task *)
(* was deleted from the Record Store, and the failure notification when    *)
(* the store's delete failed.                                              *)
C30_NotificationMatchesDelete ==
    /\ notice.shown = "success" => notice.deleted
    /\ notice.failed => notice.shown = "failure"

====
